---- MODULE Spec2Model ----
(***************************************************************************)
(* Endpoint health monitoring and error recovery of the Celo wallet kit:   *)
(* utils/errorRecovery.ts, utils/networkMonitoring.ts and the              *)
(* useNetworkHealth hook.  Strings are sequences of one-character strings  *)
(* so that toLowerCase() and includes() are computed, not assumed.         *)
(***************************************************************************)
EXTENDS Integers, Sequences, FiniteSets, Bags, TLC

VARIABLES
    \* classifyError(error, context)
    clsMessage, clsContext, clsResult,
    \* retryWithBackoff(operation, config)
    retryConfig, attempt, lastError, retryPc, retryResult, opLog, delays,
    \* recoverFromError(error, context, availableEndpoints)
    recError, recContext, recPool, recCategory, recMessage, recIdx,
    recAttempts, recPc, recResult,
    \* RPC endpoints, probes in flight, clock
    endpoints, probes, batches, now, probeLog,
    \* useNetworkHealth hook state and refreshes in flight
    data, loading, error, lastFetchTime, refreshes, hookOptions,
    fetchCalls, lastCall, lastRefresh,
    \* switchRpcEndpoint(currentEndpoint, availableEndpoints)
    swCurrent, swPool, swPc, swResult,
    \* determineCongestionLevel(gasPrice, averageResponseTime)
    cgGasPrice, cgResponseTime, cgLevel,
    \* requestUserConsent(request), its timer and the clock in ms
    conAction, conTimeout, conPc, conResult, conTimer, conIssuedAt,
    conResolvedAt, conClock,
    \* useErrorRecovery: options, state, callbacks called, calls in flight
    erError, erPool, erOptions, erMessage, erLoading, erSuccess, erAttempts,
    erCallbacks, erAuto, erManual, erEvent, erEvents,
    \* useNetworkHealth mounted: the effect to run, the timers armed
    mounted, effectPending, timers, interval

clsVars == <<clsMessage, clsContext, clsResult>>
retryVars == <<retryConfig, attempt, lastError, retryPc, retryResult, opLog, delays>>
recVars == <<recError, recContext, recPool, recCategory, recMessage, recIdx,
             recAttempts, recPc, recResult>>
netVars == <<endpoints, probes, batches, now, probeLog>>
hookVars == <<data, loading, error, lastFetchTime, refreshes, hookOptions,
              fetchCalls, lastCall, lastRefresh>>
switchVars == <<swCurrent, swPool, swPc, swResult>>
congestionVars == <<cgGasPrice, cgResponseTime, cgLevel>>
coreVars == <<clsVars, retryVars, recVars, netVars, hookVars>>
consentVars == <<conAction, conTimeout, conPc, conResult, conTimer, conIssuedAt,
                 conResolvedAt, conClock>>
recoveryHookVars == <<erError, erPool, erOptions, erMessage, erLoading, erSuccess,
                      erAttempts, erCallbacks, erAuto, erManual, erEvent, erEvents>>
monitorVars == <<mounted, effectPending, timers, interval>>
otherVars == <<switchVars, congestionVars, consentVars, recoveryHookVars, monitorVars>>
vars == <<coreVars, otherVars>>

NULL == "null"
UNDEFINED == "undefined"
\* an absent string argument (context?: string)
NoContext == <<UNDEFINED>>

(***************************************************************************)
(* Bounds of the model.                                                    *)
(***************************************************************************)
MaxWords == 2
MaxAttemptsBound == 4
MaxPool == 2
NumEndpoints == 2
MaxNow == 2
MaxProbes == 2
MaxBatches == 2
MaxErrorCount == 2
MaxCalls == 3
MaxInFlight == 1
MaxCandidates == 3
MaxClockSteps == 8
MaxEvents == 4
MaxMonitorCalls == 4
MaxOverlap == 2

(***************************************************************************)
(* Strings.                                                                *)
(***************************************************************************)
UpperToLower ==
    [c \in {"A", "C", "G", "M", "N", "P", "R", "T", "U", "V", "W"} |->
        CASE c = "A" -> "a" [] c = "C" -> "c" [] c = "G" -> "g"
          [] c = "M" -> "m" [] c = "N" -> "n" [] c = "P" -> "p"
          [] c = "R" -> "r" [] c = "T" -> "t" [] c = "U" -> "u"
          [] c = "V" -> "v" [] c = "W" -> "w"]

toLowerCase(s) ==
    [i \in 1..Len(s) |-> IF s[i] \in DOMAIN UpperToLower THEN UpperToLower[s[i]] ELSE s[i]]

includes(s, sub) ==
    \E i \in 1..(Len(s) - Len(sub) + 1) : SubSeq(s, i, i + Len(sub) - 1) = sub

includesAny(s, subs) ==
    \E sub \in subs : includes(s, sub)

(***************************************************************************)
(* classifyError: the keyword tables of the four checks, in code order.    *)
(***************************************************************************)
NetworkKeywords ==
    { <<"n", "e", "t", "w", "o", "r", "k">>,
      <<"r", "p", "c">>,
      <<"c", "o", "n", "n", "e", "c", "t", "i", "o", "n">>,
      <<"t", "i", "m", "e", "o", "u", "t">> }

WalletKeywords ==
    { <<"w", "a", "l", "l", "e", "t">>,
      <<"m", "e", "t", "a", "m", "a", "s", "k">>,
      <<"c", "o", "n", "n", "e", "c", "t", "o", "r">>,
      <<"a", "c", "c", "o", "u", "n", "t">> }

TransactionKeywords ==
    { <<"t", "r", "a", "n", "s", "a", "c", "t", "i", "o", "n">>,
      <<"t", "x">>,
      <<"g", "a", "s">>,
      <<"n", "o", "n", "c", "e">> }

BrowserKeywords ==
    { <<"b", "r", "o", "w", "s", "e", "r">>,
      <<"c", "o", "m", "p", "a", "t", "i", "b", "i", "l", "i", "t", "y">>,
      <<"u", "n", "s", "u", "p", "p", "o", "r", "t", "e", "d">> }

CategoryName ==
    [network |-> <<"n", "e", "t", "w", "o", "r", "k">>,
     wallet |-> <<"w", "a", "l", "l", "e", "t">>,
     transaction |-> <<"t", "r", "a", "n", "s", "a", "c", "t", "i", "o", "n">>,
     browser |-> <<"b", "r", "o", "w", "s", "e", "r">>]

ErrorCategory == {"network", "wallet", "transaction", "browser"}

\* const ctx = context?.toLowerCase() || ''
ctxOf(context) ==
    IF context = NoContext THEN <<>> ELSE toLowerCase(context)

\* the wallet check ahead of the network check
classifyErrorWalletFirst(message, context) ==
    LET msg == toLowerCase(message)
        ctx == ctxOf(context)
    IN  IF includesAny(msg, WalletKeywords) \/ includes(ctx, CategoryName.wallet)
        THEN "wallet"
        ELSE IF includesAny(msg, NetworkKeywords) \/ includes(ctx, CategoryName.network)
        THEN "network"
        ELSE IF includesAny(msg, TransactionKeywords) \/ includes(ctx, CategoryName.transaction)
        THEN "transaction"
        ELSE IF includesAny(msg, BrowserKeywords) \/ includes(ctx, CategoryName.browser)
        THEN "browser"
        ELSE "network"

classifyError(message, context) ==
    LET msg == toLowerCase(message)
        ctx == ctxOf(context)
    IN  IF includesAny(msg, NetworkKeywords) \/ includes(ctx, CategoryName.network)
        THEN "network"
        ELSE IF includesAny(msg, WalletKeywords) \/ includes(ctx, CategoryName.wallet)
        THEN "wallet"
        ELSE IF includesAny(msg, TransactionKeywords) \/ includes(ctx, CategoryName.transaction)
        THEN "transaction"
        ELSE IF includesAny(msg, BrowserKeywords) \/ includes(ctx, CategoryName.browser)
        THEN "browser"
        ELSE "network"

(***************************************************************************)
(* Inputs: error messages are one to MaxWords words of the vocabulary      *)
(* joined by blanks; context hints are absent, a category name, a          *)
(* capitalised category name or a foreign word.                            *)
(***************************************************************************)
Vocabulary ==
    { <<"R", "P", "C">>,
      <<"t", "i", "m", "e", "o", "u", "t">>,
      <<"n", "e", "t", "w", "o", "r", "k">>,
      <<"u", "n", "r", "e", "a", "c", "h", "a", "b", "l", "e">>,
      <<"M", "e", "t", "a", "M", "a", "s", "k">>,
      <<"A", "c", "c", "o", "u", "n", "t">>,
      <<"T", "r", "a", "n", "s", "a", "c", "t", "i", "o", "n">>,
      <<"V", "e", "g", "a", "s">>,
      <<"N", "o", "n", "c", "e">>,
      <<"b", "r", "o", "w", "s", "e", "r">>,
      <<"U", "n", "s", "u", "p", "p", "o", "r", "t", "e", "d">>,
      <<"e", "r", "r", "o", "r">>,
      <<"a", "n", "y", "t", "h", "i", "n", "g">>,
      <<"C", "o", "n", "n", "e", "c", "t", "i", "o", "n">>,
      <<"W", "a", "l", "l", "e", "t">>,
      <<"c", "o", "n", "n", "e", "c", "t", "o", "r">>,
      <<"T", "x">>,
      <<"C", "o", "m", "p", "a", "t", "i", "b", "i", "l", "i", "t", "y">> }

RECURSIVE Phrases(_)
Phrases(n) ==
    IF n = 1 THEN Vocabulary
    ELSE Phrases(n - 1) \cup
         { p \o <<" ">> \o w : p \in Phrases(n - 1), w \in Vocabulary }

Messages == Phrases(MaxWords)

Contexts ==
    { NoContext,
      <<"n", "e", "t", "w", "o", "r", "k">>,
      <<"w", "a", "l", "l", "e", "t">>,
      <<"t", "r", "a", "n", "s", "a", "c", "t", "i", "o", "n">>,
      <<"b", "r", "o", "w", "s", "e", "r">>,
      <<"W", "a", "l", "l", "e", "t">>,
      <<"s", "w", "a", "p">> }

(***************************************************************************)
(* retryWithBackoff.  A Partial<RetryConfig> gives each field as <<>>      *)
(* (absent) or <<v>>; the spread {...defaultRetryConfig, ...config} takes  *)
(* the given fields over the defaults.                                     *)
(***************************************************************************)
defaultRetryConfig ==
    [maxAttempts |-> 3, initialDelay |-> 1000, backoffMultiplier |-> 2, maxDelay |-> 30000]

mergeConfig(config) ==
    [f \in DOMAIN defaultRetryConfig |->
        IF config[f] = <<>> THEN defaultRetryConfig[f] ELSE config[f][1]]

RECURSIVE pow(_, _)
pow(b, e) ==
    IF e = 0 THEN 1 ELSE b * pow(b, e - 1)

min(a, b) ==
    IF a < b THEN a ELSE b

\* the delay without the ceiling of maxDelay
backoffDelayUncapped(cfg, n) ==
    cfg.initialDelay * pow(cfg.backoffMultiplier, n - 1)

\* Math.min(cfg.initialDelay * Math.pow(cfg.backoffMultiplier, attempt - 1), cfg.maxDelay)
backoffDelay(cfg, n) ==
    min(cfg.initialDelay * pow(cfg.backoffMultiplier, n - 1), cfg.maxDelay)

\* the loop left one attempt early
isLastAttemptEarly(cfg, n) ==
    n + 1 >= cfg.maxAttempts

\* if (attempt === cfg.maxAttempts) break
isLastAttempt(cfg, n) ==
    n = cfg.maxAttempts

Option(S) ==
    {<<>>} \cup { <<v>> : v \in S }

RetryConfigs ==
    [maxAttempts : Option(0..MaxAttemptsBound),
     initialDelay : Option({10, 1000}),
     backoffMultiplier : Option({1, 3}),
     maxDelay : Option({50, 100})]

OperationErrors == {"First attempt failed", "Always fails"}
OperationValues == {"Success"}

ClassifyIdle ==
    /\ clsMessage = <<>>
    /\ clsContext = NoContext
    /\ clsResult = NULL

RetryIdle ==
    /\ retryConfig = [f \in DOMAIN defaultRetryConfig |-> <<>>]
    /\ attempt = 0
    /\ lastError = UNDEFINED
    /\ retryPc = "idle"
    /\ retryResult = UNDEFINED
    /\ opLog = <<>>
    /\ delays = <<>>

\* the for loop's entry: attempt = 1, test, first call of operation()
RetryWithBackoff ==
    /\ retryPc = "idle"
    /\ attempt' = 1
    /\ IF 1 <= mergeConfig(retryConfig).maxAttempts
       THEN retryPc' = "awaitOperation" /\ retryResult' = retryResult
       ELSE retryPc' = "thrown" /\ retryResult' = lastError
    /\ UNCHANGED <<retryConfig, lastError, opLog, delays>>

\* return await operation()
OperationResolves ==
    /\ retryPc = "awaitOperation"
    /\ \E v \in OperationValues :
        /\ opLog' = Append(opLog, [ok |-> TRUE, value |-> v])
        /\ retryResult' = v
    /\ retryPc' = "returned"
    /\ UNCHANGED <<retryConfig, attempt, lastError, delays>>

\* catch (error): remember it, then break and throw, or sleep
OperationRejects ==
    /\ retryPc = "awaitOperation"
    /\ \E e \in OperationErrors :
        /\ opLog' = Append(opLog, [ok |-> FALSE, value |-> e])
        /\ lastError' = e
        /\ IF isLastAttempt(mergeConfig(retryConfig), attempt)
           THEN /\ retryPc' = "thrown"
                /\ retryResult' = e
                /\ delays' = delays
           ELSE /\ retryPc' = "sleeping"
                /\ retryResult' = retryResult
                /\ delays' = Append(delays, backoffDelay(mergeConfig(retryConfig), attempt))
    /\ UNCHANGED <<retryConfig, attempt>>

\* the setTimeout of the delay fires: attempt++, test, next call of operation()
RetryTimerFires ==
    /\ retryPc = "sleeping"
    /\ attempt' = attempt + 1
    /\ IF attempt + 1 <= mergeConfig(retryConfig).maxAttempts
       THEN retryPc' = "awaitOperation" /\ retryResult' = retryResult
       ELSE retryPc' = "thrown" /\ retryResult' = lastError
    /\ UNCHANGED <<retryConfig, lastError, opLog, delays>>

(***************************************************************************)
(* generateUserMessage: the recovery catalog.                              *)
(***************************************************************************)
Action(type, automatic, requiresConsent) ==
    [type |-> type, automatic |-> automatic, requiresConsent |-> requiresConsent]

\* the catalog with the network actions in the other order
generateUserMessageSwitchFirst(category) ==
    CASE category = "network" ->
            [title |-> "Network Connection Issue", severity |-> "error",
             actions |-> << Action("switch_rpc", TRUE, FALSE),
                            Action("retry", TRUE, FALSE) >>]
      [] category = "wallet" ->
            [title |-> "Wallet Connection Issue", severity |-> "error",
             actions |-> << Action("retry", TRUE, FALSE),
                            Action("install_wallet", FALSE, FALSE) >>]
      [] category = "transaction" ->
            [title |-> "Transaction Error", severity |-> "error",
             actions |-> << Action("retry", FALSE, TRUE),
                            Action("manual_action", FALSE, FALSE) >>]
      [] category = "browser" ->
            [title |-> "Browser Compatibility Issue", severity |-> "error",
             actions |-> << Action("update_browser", FALSE, FALSE) >>]
      [] OTHER ->
            [title |-> "An error occurred", severity |-> "error", actions |-> <<>>]

generateUserMessage(category) ==
    CASE category = "network" ->
            [title |-> "Network Connection Issue", severity |-> "error",
             actions |-> << Action("retry", TRUE, FALSE),
                            Action("switch_rpc", TRUE, FALSE) >>]
      [] category = "wallet" ->
            [title |-> "Wallet Connection Issue", severity |-> "error",
             actions |-> << Action("retry", TRUE, FALSE),
                            Action("install_wallet", FALSE, FALSE) >>]
      [] category = "transaction" ->
            [title |-> "Transaction Error", severity |-> "error",
             actions |-> << Action("retry", FALSE, TRUE),
                            Action("manual_action", FALSE, FALSE) >>]
      [] category = "browser" ->
            [title |-> "Browser Compatibility Issue", severity |-> "error",
             actions |-> << Action("update_browser", FALSE, FALSE) >>]
      [] OTHER ->
            [title |-> "An error occurred", severity |-> "error", actions |-> <<>>]

(***************************************************************************)
(* switchRpcEndpoint: filter, sort by score (Array.prototype.sort is       *)
(* stable), first element.  The result is <<>> for null, <<ep>> otherwise. *)
(***************************************************************************)
score(ep) ==
    ep.metrics.responseTime + (100 - ep.metrics.successRate)

\* insert ep behind every element the comparator does not place after it
RECURSIVE insertByScore(_, _)
insertByScore(sorted, ep) ==
    IF sorted = <<>> THEN <<ep>>
    ELSE IF score(ep) - score(Head(sorted)) < 0
         THEN <<ep>> \o sorted
         ELSE <<Head(sorted)>> \o insertByScore(Tail(sorted), ep)

RECURSIVE sortByScore(_)
sortByScore(eps) ==
    IF eps = <<>> THEN <<>>
    ELSE insertByScore(sortByScore(SubSeq(eps, 1, Len(eps) - 1)), eps[Len(eps)])

\* the filter without the comparison of the urls
isCandidateAnyUrl(ep, currentEndpoint) ==
    ep.status = "healthy" /\ ep.isActive

isCandidate(ep, currentEndpoint) ==
    ep.status = "healthy" /\ ep.isActive /\ ep.url # currentEndpoint.url

\* the first candidate in pool order, without the sort
switchRpcEndpointUnsorted(currentEndpoint, availableEndpoints) ==
    LET healthyEndpoints ==
            SelectSeq(availableEndpoints, LAMBDA ep : isCandidate(ep, currentEndpoint))
    IN  IF Len(healthyEndpoints) = 0 THEN <<>>
        ELSE <<healthyEndpoints[1]>>

switchRpcEndpoint(currentEndpoint, availableEndpoints) ==
    LET healthyEndpoints ==
            SelectSeq(availableEndpoints, LAMBDA ep : isCandidate(ep, currentEndpoint))
    IN  IF Len(healthyEndpoints) = 0 THEN <<>>
        ELSE <<sortByScore(healthyEndpoints)[1]>>

(***************************************************************************)
(* requestUserConsent: true at once without requiresConsent, otherwise     *)
(* true when the timer of min(timeout, 5000) ms fires.                     *)
(***************************************************************************)
\* the timer set to the longer of the timeout and 5000 ms
consentWaitLonger(action, timeout) ==
    IF ~action.requiresConsent THEN 0
    ELSE IF timeout >= 5000 THEN timeout ELSE 5000

consentWait(action, timeout) ==
    IF ~action.requiresConsent THEN 0 ELSE min(timeout, 5000)

requestUserConsent(action) ==
    TRUE

(***************************************************************************)
(* recoverFromError.                                                       *)
(***************************************************************************)
\* the switch over action.type inside the try block
performRecovery(action, pool) ==
    CASE action.type = "retry" ->
            [success |-> TRUE, details |-> <<>>]
      [] action.type = "switch_rpc" ->
            IF pool.given /\ Len(pool.list) > 0
            THEN LET newEndpoint == switchRpcEndpoint(pool.list[1], pool.list)
                 IN  IF newEndpoint # <<>>
                     THEN [success |-> TRUE, details |-> <<"Switched to", newEndpoint[1].url>>]
                     ELSE [success |-> FALSE, details |-> <<"No alternative endpoint available">>]
            ELSE [success |-> FALSE, details |-> <<>>]
      [] action.type \in {"install_wallet", "update_browser", "manual_action"} ->
            [success |-> TRUE, details |-> <<"User guidance provided">>]
      [] OTHER ->
            [success |-> FALSE, details |-> <<>>]

\* the loop going on after a successful attempt
returnsRecoveredNever(success) ==
    FALSE

\* if (attempt.success) return { recovered: true, ... }
returnsRecovered(success) ==
    success

\* the loop taking every action, automatic or not
nextAutomaticAny(actions, from) ==
    IF from <= Len(actions) THEN from ELSE 0

\* the next index i >= from of an automatic action, 0 when the loop runs out
nextAutomatic(actions, from) ==
    IF \E i \in from..Len(actions) : actions[i].automatic
    THEN CHOOSE i \in from..Len(actions) :
            /\ actions[i].automatic
            /\ \A j \in from..(i - 1) : ~actions[j].automatic
    ELSE 0

Urls == {"https://forno.celo.org", "https://rpc.ankr.com/celo", "https://1rpc.io/celo"}

EndpointStates ==
    { <<"healthy", TRUE>>, <<"healthy", FALSE>>, <<"degraded", TRUE>>, <<"down", FALSE>> }

SampleMetrics ==
    { [responseTime |-> 100, successRate |-> 98, lastChecked |-> 0, errorCount |-> 0],
      [responseTime |-> 102, successRate |-> 100, lastChecked |-> 0, errorCount |-> 0] }

SampleEndpoints ==
    { [url |-> u, chainId |-> 42220, status |-> st[1], isActive |-> st[2], metrics |-> m] :
        u \in Urls, st \in EndpointStates, m \in SampleMetrics }

\* lists of at most n endpoints with pairwise distinct urls
RECURSIVE PoolsOfLen(_)
PoolsOfLen(n) ==
    IF n = 0 THEN { <<>> }
    ELSE { Append(p, ep) : p \in PoolsOfLen(n - 1), ep \in SampleEndpoints }

DistinctUrls(p) ==
    \A i, j \in 1..Len(p) : i # j => p[i].url # p[j].url

Pools ==
    UNION { { p \in PoolsOfLen(n) : DistinctUrls(p) } : n \in 0..MaxPool }

PoolArguments ==
    { [given |-> FALSE, list |-> <<>>] } \cup { [given |-> TRUE, list |-> p] : p \in Pools }

\* "network unreachable"
NetworkUnreachable ==
    <<"n", "e", "t", "w", "o", "r", "k", " ", "u", "n", "r", "e", "a", "c", "h", "a", "b", "l", "e">>

RecoverMessages ==
    Vocabulary \cup { NetworkUnreachable }

NoMessage ==
    [title |-> "", severity |-> "", actions |-> <<>>]

RecoverIdle ==
    /\ recError = <<>>
    /\ recContext = NoContext
    /\ recPool = [given |-> FALSE, list |-> <<>>]
    /\ recCategory = NULL
    /\ recMessage = NoMessage
    /\ recIdx = 0
    /\ recAttempts = <<>>
    /\ recPc = "idle"
    /\ recResult = [recovered |-> FALSE, message |-> NoMessage, attempts |-> <<>>]

\* entry: classify, build the message, run to the first consent request
RecoverFromError ==
    /\ recPc = "idle"
    /\ LET category == classifyError(recError, recContext)
           message == generateUserMessage(category)
           i == nextAutomatic(message.actions, 1)
       IN  /\ recCategory' = category
           /\ recMessage' = message
           /\ recIdx' = i
           /\ IF i = 0
              THEN /\ recPc' = "returned"
                   /\ recResult' = [recovered |-> FALSE, message |-> message, attempts |-> <<>>]
              ELSE /\ recPc' = "awaitConsent"
                   /\ recResult' = recResult
    /\ UNCHANGED <<recError, recContext, recPool, recAttempts>>

\* a consent request that is never settled
RecoverConsentPending ==
    /\ recPc = "awaitConsent"
    /\ UNCHANGED recVars

\* the consent request resolves: skip or perform the action, record the
\* attempt, return on success or go on to the next automatic action
RecoverConsentResolves ==
    /\ recPc = "awaitConsent"
    /\ LET action == recMessage.actions[recIdx]
           consent == requestUserConsent(action)
           outcome == performRecovery(action, recPool)
           attempts == IF consent
                       THEN Append(recAttempts,
                                   [category |-> recCategory, action |-> action,
                                    success |-> outcome.success, details |-> outcome.details])
                       ELSE recAttempts
           i == nextAutomatic(recMessage.actions, recIdx + 1)
       IN  /\ recAttempts' = attempts
           /\ IF consent /\ returnsRecovered(outcome.success)
              THEN /\ recPc' = "returned"
                   /\ recIdx' = recIdx
                   /\ recResult' = [recovered |-> TRUE, message |-> recMessage, attempts |-> attempts]
              ELSE IF i = 0
              THEN /\ recPc' = "returned"
                   /\ recIdx' = recIdx
                   /\ recResult' = [recovered |-> FALSE, message |-> recMessage, attempts |-> attempts]
              ELSE /\ recPc' = "awaitConsent"
                   /\ recIdx' = i
                   /\ recResult' = recResult
    /\ UNCHANGED <<recError, recContext, recPool, recCategory, recMessage>>

(***************************************************************************)
(* networkMonitoring.ts: probes.  endpoints is the caller's array, whose   *)
(* records the probes rewrite in place; probes are the getBlockNumber      *)
(* calls in flight; batches are the Promise.all of checkMultipleEndpoints. *)
(* probeLog[i] remembers, per endpoint, the failures in a row, the batch   *)
(* of the probe that wrote the record last (0: a single probe), how that   *)
(* probe ended and the errorCount it found.                                *)
(***************************************************************************)
chainMap == {42220, 44787, 62320}

\* createClient throws for a chain id that chainMap lacks
createClientThrows(ep) ==
    ep.chainId \notin chainMap

\* createClient outside the try block: its exception leaves the call
probeResultUncaught(clientThrows, rpcOk) ==
    IF clientThrows THEN "rejected"
    ELSE IF rpcOk THEN "success" ELSE "failure"

\* how one checkRPCEndpointHealth ends: both createClient and the awaited
\* getBlockNumber sit inside the try block, so every failure is caught
probeResult(clientThrows, rpcOk) ==
    IF ~clientThrows /\ rpcOk THEN "success" ELSE "failure"

\* the try branch without the reset of errorCount
applyProbeKeepsErrors(ep, result, responseTime, t) ==
    CASE result = "success" ->
            [ep EXCEPT !.metrics = [responseTime |-> responseTime, successRate |-> 100,
                                    lastChecked |-> t, errorCount |-> ep.metrics.errorCount],
                       !.status = "healthy",
                       !.isActive = TRUE]
      [] result = "failure" ->
            [ep EXCEPT !.metrics = [responseTime |-> responseTime, successRate |-> 0,
                                    lastChecked |-> t, errorCount |-> ep.metrics.errorCount + 1],
                       !.status = "down",
                       !.isActive = FALSE]
      [] OTHER -> ep

\* the catch branch without the write of isActive
applyProbeStaysActive(ep, result, responseTime, t) ==
    CASE result = "success" ->
            [ep EXCEPT !.metrics = [responseTime |-> responseTime, successRate |-> 100,
                                    lastChecked |-> t, errorCount |-> 0],
                       !.status = "healthy",
                       !.isActive = TRUE]
      [] result = "failure" ->
            [ep EXCEPT !.metrics = [responseTime |-> responseTime, successRate |-> 0,
                                    lastChecked |-> t, errorCount |-> ep.metrics.errorCount + 1],
                       !.status = "down"]
      [] OTHER -> ep

\* the field updates of the try branch, of the catch branch, or none when
\* the call rejected
applyProbe(ep, result, responseTime, t) ==
    CASE result = "success" ->
            [ep EXCEPT !.metrics = [responseTime |-> responseTime, successRate |-> 100,
                                    lastChecked |-> t, errorCount |-> 0],
                       !.status = "healthy",
                       !.isActive = TRUE]
      [] result = "failure" ->
            [ep EXCEPT !.metrics = [responseTime |-> responseTime, successRate |-> 0,
                                    lastChecked |-> t, errorCount |-> ep.metrics.errorCount + 1],
                       !.status = "down",
                       !.isActive = FALSE]
      [] OTHER -> ep

logProbe(entry, result, b, ep) ==
    CASE result = "success" ->
            [fails |-> 0, writer |-> b, last |-> result, prior |-> ep.metrics.errorCount]
      [] result = "failure" ->
            [fails |-> entry.fails + 1, writer |-> b, last |-> result,
             prior |-> ep.metrics.errorCount]
      [] OTHER -> entry

\* Promise.all: rejected with the first rejection, fulfilled when every
\* promise is
settleBatch(batch, i, result) ==
    LET outcome == [batch.outcome EXCEPT ![i] = result]
    IN  [batch EXCEPT !.outcome = outcome,
                      !.state = IF batch.state = "running" /\ result = "rejected"
                                THEN "rejected"
                                ELSE IF batch.state = "running"
                                        /\ \A j \in DOMAIN outcome : outcome[j] # "pending"
                                THEN "fulfilled"
                                ELSE batch.state]

EndpointIndex == 1..NumEndpoints

UrlOf ==
    [i \in 1..3 |-> CASE i = 1 -> "https://forno.celo.org"
                      [] i = 2 -> "https://rpc.ankr.com/celo"
                      [] i = 3 -> "https://1rpc.io/celo"]

\* status, isActive and errorCount of a configured endpoint record
InitialStates ==
    { <<"healthy", TRUE, 0>>, <<"degraded", TRUE, 0>>, <<"down", FALSE, 1>> }

InitialEndpoints(i, chains, states) ==
    { [url |-> UrlOf[i], chainId |-> c, status |-> st[1], isActive |-> st[2],
       metrics |-> [responseTime |-> 0, successRate |-> 100, lastChecked |-> 0,
                    errorCount |-> st[3]]] :
        c \in chains, st \in states }

NetIdle ==
    /\ endpoints = <<>>
    /\ probes = EmptyBag
    /\ batches = <<>>
    /\ now = 0
    /\ probeLog = <<>>

\* checkRPCEndpointHealth(endpoints[i]) called on its own
CheckRPCEndpointHealth(i) ==
    /\ BagCardinality(probes) < MaxProbes
    /\ endpoints[i].metrics.errorCount < MaxErrorCount
    /\ IF createClientThrows(endpoints[i])
       THEN LET result == probeResult(TRUE, FALSE)
            IN  /\ endpoints' = [endpoints EXCEPT ![i] = applyProbe(@, result, 0, now)]
                /\ probeLog' = [probeLog EXCEPT ![i] = logProbe(@, result, 0, endpoints[i])]
                /\ probes' = probes
       ELSE /\ probes' = probes (+) SetToBag({[ep |-> i, startTime |-> now, batch |-> 0]})
            /\ UNCHANGED <<endpoints, probeLog>>
    /\ UNCHANGED <<batches, now>>

\* the endpoints a batch over the list eps probes at once: those whose
\* client cannot be created end in the catch branch before the call returns
launchBatch(eps, b) ==
    LET sync == { i \in eps : createClientThrows(endpoints[i]) }
    IN  /\ endpoints' = [i \in DOMAIN endpoints |->
                            IF i \in sync
                            THEN applyProbe(endpoints[i], probeResult(TRUE, FALSE), 0, now)
                            ELSE endpoints[i]]
        /\ probeLog' = [i \in DOMAIN probeLog |->
                            IF i \in sync
                            THEN logProbe(probeLog[i], probeResult(TRUE, FALSE), b, endpoints[i])
                            ELSE probeLog[i]]
        /\ probes' = probes (+) SetToBag({ [ep |-> i, startTime |-> now, batch |-> b] :
                                            i \in eps \ sync })

newBatch(eps, owner) ==
    LET outcome == [i \in eps |-> IF createClientThrows(endpoints[i])
                                  THEN probeResult(TRUE, FALSE) ELSE "pending"]
    IN  [owner |-> owner, outcome |-> outcome,
         state |-> IF \E i \in eps : outcome[i] = "rejected" THEN "rejected"
                   ELSE IF \A i \in eps : outcome[i] # "pending" THEN "fulfilled"
                   ELSE "running",
         resumed |-> FALSE]

canLaunch(eps) ==
    /\ Len(batches) < MaxBatches
    /\ BagCardinality(probes) + Cardinality(eps) <= MaxProbes + NumEndpoints
    /\ \A i \in eps : createClientThrows(endpoints[i]) =>
                        endpoints[i].metrics.errorCount < MaxErrorCount

\* checkMultipleEndpoints(endpoints) called on its own
CheckMultipleEndpoints ==
    /\ canLaunch(DOMAIN endpoints)
    /\ launchBatch(DOMAIN endpoints, Len(batches) + 1)
    /\ batches' = Append(batches, newBatch(DOMAIN endpoints, "caller"))
    /\ UNCHANGED now

\* a getBlockNumber call in flight comes back
probeSettles(p, rpcOk) ==
    LET result == probeResult(FALSE, rpcOk)
    IN  /\ endpoints' = [endpoints EXCEPT ![p.ep] = applyProbe(@, result, now - p.startTime, now)]
        /\ probeLog' = [probeLog EXCEPT ![p.ep] = logProbe(@, result, p.batch, endpoints[p.ep])]
        /\ probes' = probes (-) SetToBag({p})
        /\ batches' = IF p.batch = 0 THEN batches
                      ELSE [batches EXCEPT ![p.batch] = settleBatch(@, p.ep, result)]
        /\ UNCHANGED now

ProbeSucceeds(p) ==
    probeSettles(p, TRUE)

ProbeFails(p) ==
    /\ endpoints[p.ep].metrics.errorCount < MaxErrorCount
    /\ probeSettles(p, FALSE)

\* a batch whose caller has resumed: the promise is garbage, only its
\* owner and its end remain of it
resumedBatch(batch) ==
    [owner |-> batch.owner, outcome |-> <<>>, state |-> batch.state,
     resumed |-> TRUE]

\* await checkMultipleEndpoints(...) resumes in the caller
CheckAllResumes(b) ==
    /\ batches[b].owner = "caller"
    /\ batches[b].state # "running"
    /\ ~batches[b].resumed
    /\ batches' = [batches EXCEPT ![b] = resumedBatch(@)]
    /\ UNCHANGED <<endpoints, probes, now, probeLog>>

Tick ==
    /\ now < MaxNow
    /\ now' = now + 1
    /\ UNCHANGED <<endpoints, probes, batches, probeLog>>

(***************************************************************************)
(* networkMonitoring.ts: the figures of a snapshot.  A quotient the code   *)
(* computes in floating point is kept as [num, den].                       *)
(***************************************************************************)
\* reduce((sum, x) => sum + x, 0)
RECURSIVE sum(_)
sum(seq) ==
    IF seq = <<>> THEN 0 ELSE Head(seq) + sum(Tail(seq))

calculateAverageResponseTime(metrics) ==
    IF Len(metrics) = 0 THEN [num |-> 0, den |-> 1]
    ELSE [num |-> sum([j \in DOMAIN metrics |-> metrics[j].responseTime]), den |-> Len(metrics)]

\* gas prices are counted in kwei (1000 wei), which keeps 100 Gwei within
\* the 32-bit integers of TLC: 1e9 wei are 1000000 kwei
Gwei == 1000000

\* both dimensions needed to escalate
determineCongestionLevelBoth(gasPrice, averageResponseTime) ==
    IF gasPrice > 100 * Gwei /\ averageResponseTime.num > 5000 * averageResponseTime.den
    THEN "high"
    ELSE IF gasPrice > 50 * Gwei /\ averageResponseTime.num > 2000 * averageResponseTime.den
    THEN "medium"
    ELSE "low"

\* the comparisons with >= in place of >
determineCongestionLevelInclusive(gasPrice, averageResponseTime) ==
    IF gasPrice >= 100 * Gwei \/ averageResponseTime.num >= 5000 * averageResponseTime.den
    THEN "high"
    ELSE IF gasPrice >= 50 * Gwei \/ averageResponseTime.num >= 2000 * averageResponseTime.den
    THEN "medium"
    ELSE "low"

\* gasPriceGwei > g  and  averageResponseTime > t  over the integers
determineCongestionLevel(gasPrice, averageResponseTime) ==
    IF gasPrice > 100 * Gwei \/ averageResponseTime.num > 5000 * averageResponseTime.den
    THEN "high"
    ELSE IF gasPrice > 50 * Gwei \/ averageResponseTime.num > 2000 * averageResponseTime.den
    THEN "medium"
    ELSE "low"

(***************************************************************************)
(* useNetworkHealth.  data, loading, error and lastFetchTime are the       *)
(* hook's state; fetchHealth is rebuilt on every render, so a call reads   *)
(* the committed state.  refreshes are the fetchHealth calls in flight.    *)
(* data and error are <<>> for null.                                       *)
(***************************************************************************)
DefaultCacheTimeout == 10000

\* options.cacheTimeout || 10000
cacheTimeoutOf(options) ==
    IF options.cacheTimeout = <<>> \/ options.cacheTimeout = <<0>>
    THEN DefaultCacheTimeout
    ELSE options.cacheTimeout[1]

\* options.endpoints.filter((e) => e.chainId === currentChainId), as indices
\* into the caller's array, in its order
chainEndpoints ==
    SelectSeq([i \in DOMAIN endpoints |-> i],
              LAMBDA i : endpoints[i].chainId = hookOptions.currentChainId)

Range(seq) ==
    { seq[i] : i \in DOMAIN seq }

\* the cache still fresh at the very end of its window
cacheFreshInclusive(t) ==
    data # <<>> /\ (t - lastFetchTime) <= cacheTimeoutOf(hookOptions)

\* data && (now - lastFetchTime) < cacheTimeout
cacheFresh(t) ==
    data # <<>> /\ (t - lastFetchTime) < cacheTimeoutOf(hookOptions)

\* what the chain returns through endpoint i
gasPriceVia(i) ==
    IF i = 1 THEN 20 * Gwei ELSE 120 * Gwei

successRateVia(i) ==
    95

blocksVia(i) ==
    IF i = 1
    THEN << [number |-> 12345678, timestamp |-> 1234567890],
            [number |-> 12345677, timestamp |-> 1234567880] >>
    ELSE << [number |-> 12345678, timestamp |-> 1234567890] >>

\* timeDiffs.reduce(...) / timeDiffs.length / 1000 for blocks.length > 1
blockProductionTimeOf(blocks, previous) ==
    IF Len(blocks) > 1
    THEN [num |-> sum([i \in 1..(Len(blocks) - 1) |-> blocks[i].timestamp - blocks[i + 1].timestamp]),
          den |-> (Len(blocks) - 1) * 1000]
    ELSE previous

\* Number(blocks[0]?.number || 0)
lastBlockNumberOf(blocks) ==
    IF Len(blocks) = 0 THEN 0 ELSE blocks[1].number

\* healthy as soon as one endpoint is
networkStatusAnyHealthy(eps) ==
    LET healthyCount == Cardinality({ i \in Range(eps) : endpoints[i].status = "healthy" })
    IN  IF healthyCount > 0 THEN "healthy" ELSE "down"

networkStatus(eps) ==
    LET healthyCount == Cardinality({ i \in Range(eps) : endpoints[i].status = "healthy" })
    IN  IF healthyCount = Len(eps) THEN "healthy"
        ELSE IF healthyCount = 0 THEN "down"
        ELSE "degraded"

\* the healthData object of a refresh r whose loop has ended; rpcEndpoints
\* holds references to the live endpoint records
healthDataOf(r) ==
    [chainId |-> hookOptions.currentChainId,
     status |-> networkStatus(r.eps),
     congestionLevel |-> determineCongestionLevel(r.gasPrice, r.avgResponseTime),
     metrics |-> [rpcResponseTime |-> r.avgResponseTime,
                  transactionSuccessRate |-> r.transactionSuccessRate,
                  blockProductionTime |-> r.blockProductionTime,
                  gasPriceTrend |-> "stable",
                  connectedPeerCount |-> 0,
                  lastBlockNumber |-> r.lastBlockNumber,
                  timestamp |-> now],
     rpcEndpoints |-> r.eps,
     lastUpdated |-> now]

\* the end of the try block: setData, setLastFetchTime, then setLoading(false)
publish(old, r, exhausted) ==
    /\ data' = <<healthDataOf(r)>>
    /\ lastFetchTime' = r.now
    /\ loading' = FALSE
    /\ error' = error
    /\ refreshes' = refreshes \ {old}
    /\ lastRefresh' = <<[batch |-> r.batch, active |-> Len(r.active), exhausted |-> exhausted,
                         published |-> data' # data, failed |-> error' # <<>>,
                         activeEndpoints |-> r.active, queries |-> r.queries]>>

HookIdle ==
    /\ data = <<>>
    /\ loading = FALSE
    /\ error = <<>>
    /\ lastFetchTime = 0
    /\ refreshes = {}
    /\ hookOptions = [cacheTimeout |-> <<>>, currentChainId |-> 0]
    /\ fetchCalls = 0
    /\ lastCall = "none"
    /\ lastRefresh = <<>>

NoRate == [num |-> 0, den |-> 1]

\* a call of fetchHealth, the maxCalls-th at most, with fewer than
\* maxInFlight earlier calls still awaiting
fetchHealth(maxCalls, maxInFlight) ==
    /\ fetchCalls < maxCalls
    /\ fetchCalls' = fetchCalls + 1
    /\ IF Len(chainEndpoints) = 0
       THEN /\ lastCall' = "noEndpoints"
            /\ UNCHANGED <<netVars, data, loading, error, lastFetchTime, refreshes>>
       ELSE IF cacheFresh(now)
       THEN /\ lastCall' = "cached"
            /\ UNCHANGED <<netVars, data, loading, error, lastFetchTime, refreshes>>
       ELSE /\ canLaunch(Range(chainEndpoints))
            /\ Cardinality(refreshes) < maxInFlight
            /\ lastCall' = "started"
            /\ loading' = TRUE
            /\ error' = <<>>
            /\ launchBatch(Range(chainEndpoints), Len(batches) + 1)
            /\ batches' = Append(batches, newBatch(Range(chainEndpoints), "hook"))
            /\ refreshes' = refreshes \cup
                    {[batch |-> Len(batches) + 1, now |-> now, eps |-> chainEndpoints,
                      phase |-> "probing", active |-> <<>>, k |-> 0,
                      avgResponseTime |-> NoRate, gasPrice |-> 0,
                      transactionSuccessRate |-> 0, blockProductionTime |-> NoRate,
                      lastBlockNumber |-> 0, queries |-> <<>>]}
            /\ UNCHANGED <<now, data, lastFetchTime>>
    /\ UNCHANGED <<hookOptions, lastRefresh>>

\* a call of fetchHealth: by the effect after a render or by the timer
FetchHealth ==
    fetchHealth(MaxCalls, MaxInFlight)

\* the loop over every endpoint of the chain, active or not
activeEndpointsAll(eps) ==
    eps

\* endpoints.filter((e) => e.isActive)
activeEndpoints(eps) ==
    SelectSeq(eps, LAMBDA i : endpoints[i].isActive)

\* the retrieval a refresh is waiting for, as an entry of its log of
\* retrievals: the endpoint asked, what was asked of it, how it ended
query(r, ok) ==
    [ep |-> r.active[r.k], what |-> r.phase, ok |-> ok]

\* await checkMultipleEndpoints(endpoints) resumes: average, active
\* endpoints, first retrieval; or the catch block when the batch rejected
FetchHealthProbed(r) ==
    /\ r.phase = "probing"
    /\ batches[r.batch].state # "running"
    /\ ~batches[r.batch].resumed
    /\ batches' = [batches EXCEPT ![r.batch] = resumedBatch(@)]
    /\ UNCHANGED <<endpoints, probes, now, probeLog, hookOptions, fetchCalls, lastCall>>
    /\ IF batches[r.batch].state = "rejected"
       THEN /\ error' = <<"rejected">>
            /\ loading' = FALSE
            /\ refreshes' = refreshes \ {r}
            /\ lastRefresh' = <<[batch |-> r.batch, active |-> 0, exhausted |-> FALSE,
                                 published |-> FALSE, failed |-> TRUE,
                                 activeEndpoints |-> <<>>, queries |-> <<>>]>>
            /\ UNCHANGED <<data, lastFetchTime>>
       ELSE LET avg == calculateAverageResponseTime([j \in DOMAIN r.eps |-> endpoints[r.eps[j]].metrics])
                active == activeEndpoints(r.eps)
                r2 == [r EXCEPT !.avgResponseTime = avg, !.active = active]
            IN  IF Len(active) = 0
                THEN publish(r, r2, FALSE)
                ELSE /\ refreshes' = (refreshes \ {r}) \cup {[r2 EXCEPT !.phase = "gasPrice", !.k = 1]}
                     /\ UNCHANGED <<data, loading, error, lastFetchTime, lastRefresh>>

\* gasPrice = await getGasPrice(endpoint)
GasPriceResolves(r) ==
    /\ r.phase = "gasPrice"
    /\ ~createClientThrows(endpoints[r.active[r.k]])
    /\ refreshes' = (refreshes \ {r}) \cup
                    {[r EXCEPT !.gasPrice = gasPriceVia(r.active[r.k]), !.phase = "successRate",
                               !.queries = Append(@, query(r, TRUE))]}
    /\ UNCHANGED <<netVars, data, loading, error, lastFetchTime, hookOptions,
                   fetchCalls, lastCall, lastRefresh>>

\* transactionSuccessRate = await estimateTransactionSuccessRate(endpoint)
SuccessRateResolves(r) ==
    /\ r.phase = "successRate"
    /\ refreshes' = (refreshes \ {r}) \cup
                    {[r EXCEPT !.transactionSuccessRate = successRateVia(r.active[r.k]),
                               !.phase = "blocks",
                               !.queries = Append(@, query(r, TRUE))]}
    /\ UNCHANGED <<netVars, data, loading, error, lastFetchTime, hookOptions,
                   fetchCalls, lastCall, lastRefresh>>

\* blocks = await fetchBlockData(endpoint, 10), block figures, break, publish
BlockDataResolves(r) ==
    /\ r.phase = "blocks"
    /\ LET blocks == blocksVia(r.active[r.k])
       IN  publish(r, [r EXCEPT !.blockProductionTime = blockProductionTimeOf(blocks, @),
                                !.lastBlockNumber = lastBlockNumberOf(blocks),
                                !.queries = Append(@, query(r, TRUE))], FALSE)
    /\ UNCHANGED <<netVars, hookOptions, fetchCalls, lastCall>>

\* one of the three retrievals rejects: catch, continue with the next active
\* endpoint, or leave the loop and publish when there is none
RetrievalRejects(r) ==
    /\ r.phase \in {"gasPrice", "successRate", "blocks"}
    /\ IF r.k < Len(r.active)
       THEN /\ refreshes' = (refreshes \ {r}) \cup
                            {[r EXCEPT !.phase = "gasPrice", !.k = r.k + 1,
                                       !.queries = Append(@, query(r, FALSE))]}
            /\ UNCHANGED <<data, loading, error, lastFetchTime, lastRefresh>>
       ELSE publish(r, [r EXCEPT !.queries = Append(@, query(r, FALSE))], TRUE)
    /\ UNCHANGED <<netVars, hookOptions, fetchCalls, lastCall>>

(***************************************************************************)
(* useNetworkHealth mounted in a component.  fetchHealth is rebuilt on      *)
(* every render (endpoints is a new array each time), so the effect runs   *)
(* again after every render: it clears the timer of the render before,     *)
(* calls fetchHealth and arms a timer.  effectPending tells that a render  *)
(* was committed whose effect has not run yet; timers holds the intervals  *)
(* armed, each with the time of its next tick.                             *)
(***************************************************************************)
DefaultInterval == 30000

\* options.interval || 30000
intervalOf(option) ==
    IF option = <<>> \/ option = <<0>> THEN DefaultInterval ELSE option[1]

\* a cleanup that leaves the interval armed
effectCleanupKeeps(armed) ==
    armed

\* return () => clearInterval(id), for the interval of the effect before
effectCleanup(armed) ==
    {}

\* a step after which React renders the hook again: setLoading or setError
\* with another value, or the end of a cycle, which passes a new object to
\* setData or to setError
rerenders ==
    \/ loading' # loading
    \/ error' # error
    \/ { r.batch : r \in refreshes } \ { r.batch : r \in refreshes' } # {}

\* the state updates of a continuation of fetchHealth, seen from the
\* component: a render to come if it is still mounted
stateUpdated ==
    /\ effectPending' = (mounted /\ (effectPending \/ rerenders))
    /\ UNCHANGED <<mounted, timers, interval>>

\* the effect after a render: cleanup of the effect before, fetchHealth(),
\* setInterval(fetchHealth, interval)
Effect ==
    /\ mounted
    /\ effectPending
    /\ fetchHealth(MaxMonitorCalls, MaxOverlap)
    /\ timers' = effectCleanup(timers) \cup
                    {[id |-> fetchCalls + 1, due |-> now + intervalOf(interval)]}
    /\ effectPending' = rerenders
    /\ UNCHANGED <<mounted, interval>>

\* a tick of an armed interval: fetchHealth of the render that armed it,
\* which is the last render once its effect has run
TimerFires(t) ==
    /\ ~effectPending
    /\ t.due <= now
    /\ fetchHealth(MaxMonitorCalls, MaxOverlap)
    /\ timers' = (timers \ {t}) \cup {[t EXCEPT !.due = @ + intervalOf(interval)]}
    /\ effectPending' = (mounted /\ rerenders)
    /\ UNCHANGED <<mounted, interval>>

\* the component renders again for a reason of its own
Render ==
    /\ mounted
    /\ ~effectPending
    /\ fetchCalls < MaxMonitorCalls
    /\ effectPending' = TRUE
    /\ UNCHANGED <<mounted, timers, interval, netVars, hookVars>>

\* the component unmounts: the cleanup of the last effect
Unmount ==
    /\ mounted
    /\ mounted' = FALSE
    /\ effectPending' = FALSE
    /\ timers' = effectCleanup(timers)
    /\ UNCHANGED <<interval, netVars, hookVars>>

(***************************************************************************)
(* The components a specification leaves alone stay as they are before     *)
(* their first call.                                                       *)
(***************************************************************************)
NoEndpoint ==
    [url |-> "", chainId |-> 0, status |-> "down", isActive |-> FALSE,
     metrics |-> [responseTime |-> 0, successRate |-> 0, lastChecked |-> 0, errorCount |-> 0]]

SwitchIdle ==
    /\ swCurrent = NoEndpoint
    /\ swPool = <<>>
    /\ swPc = "idle"
    /\ swResult = <<>>

CongestionIdle ==
    /\ cgGasPrice = 0
    /\ cgResponseTime = [num |-> 0, den |-> 1]
    /\ cgLevel = NULL

CoreIdle ==
    ClassifyIdle /\ RetryIdle /\ RecoverIdle /\ NetIdle /\ HookIdle

ConsentIdle ==
    /\ conAction = Action("retry", FALSE, FALSE)
    /\ conTimeout = 0
    /\ conPc = "idle"
    /\ conResult = <<>>
    /\ conTimer = <<>>
    /\ conIssuedAt = 0
    /\ conResolvedAt = 0
    /\ conClock = 0

NoCalls ==
    [onRetry |-> 0, onSwitchRpc |-> 0, onRecovered |-> 0]

RecoveryHookIdle ==
    /\ erError = <<>>
    /\ erPool = <<>>
    /\ erOptions = [autoRecover |-> FALSE, onRetryThrows |-> FALSE]
    /\ erMessage = <<>>
    /\ erLoading = FALSE
    /\ erSuccess = FALSE
    /\ erAttempts = <<>>
    /\ erCallbacks = NoCalls
    /\ erAuto = {}
    /\ erManual = {}
    /\ erEvent = "none"
    /\ erEvents = 0

MonitorIdle ==
    /\ mounted = FALSE
    /\ effectPending = FALSE
    /\ timers = {}
    /\ interval = <<>>

OthersIdle ==
    SwitchIdle /\ CongestionIdle /\ ConsentIdle /\ RecoveryHookIdle /\ MonitorIdle

(***************************************************************************)
(* Specifications, one per component.                                      *)
(***************************************************************************)
InitClassify ==
    /\ clsMessage \in Messages
    /\ clsContext \in Contexts
    /\ clsResult = NULL
    /\ RetryIdle /\ RecoverIdle /\ NetIdle /\ HookIdle /\ OthersIdle

ClassifyError ==
    /\ clsResult = NULL
    /\ clsResult' = classifyError(clsMessage, clsContext)
    /\ UNCHANGED <<clsMessage, clsContext, retryVars, recVars, netVars, hookVars, otherVars>>

NextClassify ==
    ClassifyError

SpecClassify ==
    InitClassify /\ [][NextClassify]_vars

InitRetry ==
    /\ retryConfig \in RetryConfigs
    /\ attempt = 0
    /\ lastError = UNDEFINED
    /\ retryPc = "idle"
    /\ retryResult = UNDEFINED
    /\ opLog = <<>>
    /\ delays = <<>>
    /\ ClassifyIdle /\ RecoverIdle /\ NetIdle /\ HookIdle /\ OthersIdle

NextRetry ==
    \/ RetryWithBackoff /\ UNCHANGED <<clsVars, recVars, netVars, hookVars, otherVars>>
    \/ OperationResolves /\ UNCHANGED <<clsVars, recVars, netVars, hookVars, otherVars>>
    \/ OperationRejects /\ UNCHANGED <<clsVars, recVars, netVars, hookVars, otherVars>>
    \/ RetryTimerFires /\ UNCHANGED <<clsVars, recVars, netVars, hookVars, otherVars>>

SpecRetry ==
    InitRetry /\ [][NextRetry]_vars

InitRecover ==
    /\ recError \in RecoverMessages
    /\ recContext \in Contexts
    /\ recPool \in PoolArguments
    /\ recCategory = NULL
    /\ recMessage = NoMessage
    /\ recIdx = 0
    /\ recAttempts = <<>>
    /\ recPc = "idle"
    /\ recResult = [recovered |-> FALSE, message |-> NoMessage, attempts |-> <<>>]
    /\ ClassifyIdle /\ RetryIdle /\ NetIdle /\ HookIdle /\ OthersIdle

NextRecover ==
    \/ RecoverFromError /\ UNCHANGED <<clsVars, retryVars, netVars, hookVars, otherVars>>
    \/ RecoverConsentResolves /\ UNCHANGED <<clsVars, retryVars, netVars, hookVars, otherVars>>

SpecRecover ==
    InitRecover /\ [][NextRecover]_vars

\* a call that was made runs on: the function body is synchronous up to the
\* consent request, whose promise is settled by a return or by a timer
\* The arguments are every error and context hint with the pools of at most
\* two endpoints of the first sample metrics, and no pool.
FairPoolArguments ==
    { p \in PoolArguments :
        /\ Len(p.list) <= 2
        /\ \A i \in DOMAIN p.list : p.list[i].metrics.responseTime = 100 }

InitRecoverFair ==
    /\ InitRecover
    /\ recPool \in FairPoolArguments

FairSpecRecover ==
    InitRecoverFair /\ [][NextRecover]_vars /\ WF_vars(NextRecover)

InitProbe ==
    /\ endpoints \in [EndpointIndex -> UNION { InitialEndpoints(i, {42220, 99999}, InitialStates) : i \in EndpointIndex }]
    /\ \A i \in EndpointIndex : endpoints[i].url = UrlOf[i]
    /\ probes = EmptyBag
    /\ batches = <<>>
    /\ now = 0
    /\ probeLog = [i \in EndpointIndex |->
                        [fails |-> endpoints[i].metrics.errorCount, writer |-> 0,
                         last |-> "none", prior |-> 0]]
    /\ ClassifyIdle /\ RetryIdle /\ RecoverIdle /\ HookIdle /\ OthersIdle

NextProbe ==
    \/ \E i \in EndpointIndex :
        CheckRPCEndpointHealth(i) /\ UNCHANGED <<clsVars, retryVars, recVars, hookVars, otherVars>>
    \/ CheckMultipleEndpoints /\ UNCHANGED <<clsVars, retryVars, recVars, hookVars, otherVars>>
    \/ \E p \in BagToSet(probes) :
        ProbeSucceeds(p) /\ UNCHANGED <<clsVars, retryVars, recVars, hookVars, otherVars>>
    \/ \E p \in BagToSet(probes) :
        ProbeFails(p) /\ UNCHANGED <<clsVars, retryVars, recVars, hookVars, otherVars>>
    \/ \E b \in DOMAIN batches :
        CheckAllResumes(b) /\ UNCHANGED <<clsVars, retryVars, recVars, hookVars, otherVars>>

SpecProbe ==
    InitProbe /\ [][NextProbe]_vars

HookOptions ==
    [cacheTimeout : Option({0, 2}), currentChainId : {42220}]

InitHealth ==
    /\ endpoints \in [EndpointIndex -> UNION { InitialEndpoints(i, {42220, 44787}, {<<"healthy", TRUE, 0>>, <<"down", FALSE, 1>>}) : i \in EndpointIndex }]
    /\ \A i \in EndpointIndex : endpoints[i].url = UrlOf[i]
    /\ probes = EmptyBag
    /\ batches = <<>>
    /\ now = 0
    /\ probeLog = [i \in EndpointIndex |->
                        [fails |-> endpoints[i].metrics.errorCount, writer |-> 0,
                         last |-> "none", prior |-> 0]]
    /\ data = <<>>
    /\ loading = FALSE
    /\ error = <<>>
    /\ lastFetchTime = 0
    /\ refreshes = {}
    /\ hookOptions \in HookOptions
    /\ fetchCalls = 0
    /\ lastCall = "none"
    /\ lastRefresh = <<>>
    /\ ClassifyIdle /\ RetryIdle /\ RecoverIdle /\ OthersIdle

NextHealth ==
    \/ FetchHealth /\ UNCHANGED <<clsVars, retryVars, recVars, otherVars>>
    \/ \E p \in BagToSet(probes) :
        ProbeSucceeds(p) /\ UNCHANGED <<clsVars, retryVars, recVars, hookVars, otherVars>>
    \/ \E p \in BagToSet(probes) :
        ProbeFails(p) /\ UNCHANGED <<clsVars, retryVars, recVars, hookVars, otherVars>>
    \/ \E r \in refreshes :
        FetchHealthProbed(r) /\ UNCHANGED <<clsVars, retryVars, recVars, otherVars>>
    \/ \E r \in refreshes :
        GasPriceResolves(r) /\ UNCHANGED <<clsVars, retryVars, recVars, otherVars>>
    \/ \E r \in refreshes :
        SuccessRateResolves(r) /\ UNCHANGED <<clsVars, retryVars, recVars, otherVars>>
    \/ \E r \in refreshes :
        BlockDataResolves(r) /\ UNCHANGED <<clsVars, retryVars, recVars, otherVars>>
    \/ \E r \in refreshes :
        RetrievalRejects(r) /\ UNCHANGED <<clsVars, retryVars, recVars, otherVars>>
    \/ Tick /\ UNCHANGED <<clsVars, retryVars, recVars, hookVars, otherVars>>

SpecHealth ==
    InitHealth /\ [][NextHealth]_vars

(***************************************************************************)
(* useNetworkHealth mounted over a pool with one healthy endpoint of the   *)
(* chain, from its first render, with its effect, its timer and its        *)
(* unmount.                                                                *)
(***************************************************************************)
MonitorIntervals ==
    Option({1, 2})

idleInMonitor ==
    <<clsVars, retryVars, recVars, switchVars, congestionVars, consentVars, recoveryHookVars>>

InitMonitor ==
    /\ endpoints = [i \in EndpointIndex |->
                        CHOOSE e \in InitialEndpoints(i, {IF i = 1 THEN 42220 ELSE 44787},
                                                      {<<"healthy", TRUE, 0>>}) : TRUE]
    /\ probes = EmptyBag
    /\ batches = <<>>
    /\ now = 0
    /\ probeLog = [i \in EndpointIndex |->
                        [fails |-> endpoints[i].metrics.errorCount, writer |-> 0,
                         last |-> "none", prior |-> 0]]
    /\ data = <<>>
    /\ loading = FALSE
    /\ error = <<>>
    /\ lastFetchTime = 0
    /\ refreshes = {}
    /\ hookOptions \in HookOptions
    /\ fetchCalls = 0
    /\ lastCall = "none"
    /\ lastRefresh = <<>>
    /\ mounted = TRUE
    /\ effectPending = TRUE
    /\ timers = {}
    /\ interval \in MonitorIntervals
    /\ ClassifyIdle /\ RetryIdle /\ RecoverIdle
    /\ SwitchIdle /\ CongestionIdle /\ ConsentIdle /\ RecoveryHookIdle

NextMonitor ==
    \/ Effect /\ UNCHANGED idleInMonitor
    \/ \E t \in timers :
        TimerFires(t) /\ UNCHANGED idleInMonitor
    \/ Render /\ UNCHANGED idleInMonitor
    \/ Unmount /\ UNCHANGED idleInMonitor
    \/ \E p \in BagToSet(probes) :
        ProbeSucceeds(p) /\ UNCHANGED <<hookVars, monitorVars, idleInMonitor>>
    \/ \E p \in BagToSet(probes) :
        ProbeFails(p) /\ UNCHANGED <<hookVars, monitorVars, idleInMonitor>>
    \/ \E r \in refreshes :
        FetchHealthProbed(r) /\ stateUpdated /\ UNCHANGED idleInMonitor
    \/ \E r \in refreshes :
        GasPriceResolves(r) /\ stateUpdated /\ UNCHANGED idleInMonitor
    \/ \E r \in refreshes :
        SuccessRateResolves(r) /\ stateUpdated /\ UNCHANGED idleInMonitor
    \/ \E r \in refreshes :
        BlockDataResolves(r) /\ stateUpdated /\ UNCHANGED idleInMonitor
    \/ \E r \in refreshes :
        RetrievalRejects(r) /\ stateUpdated /\ UNCHANGED idleInMonitor
    \/ Tick /\ UNCHANGED <<hookVars, monitorVars, idleInMonitor>>

SpecMonitor ==
    InitMonitor /\ [][NextMonitor]_vars

(***************************************************************************)
(* switchRpcEndpoint on its own: every current endpoint against every      *)
(* list of at most MaxCandidates endpoints with distinct urls.             *)
(***************************************************************************)
SwitchMetrics ==
    SampleMetrics \cup
    { [responseTime |-> 200, successRate |-> 90, lastChecked |-> 0, errorCount |-> 0] }

SwitchEndpoints ==
    { [url |-> u, chainId |-> 42220, status |-> st[1], isActive |-> st[2], metrics |-> m] :
        u \in Urls, st \in EndpointStates, m \in SwitchMetrics }

RECURSIVE SwitchPoolsOfLen(_)
SwitchPoolsOfLen(n) ==
    IF n = 0 THEN { <<>> }
    ELSE { q \in { Append(p, ep) : p \in SwitchPoolsOfLen(n - 1), ep \in SwitchEndpoints } :
            DistinctUrls(q) }

SwitchPools ==
    UNION { SwitchPoolsOfLen(n) : n \in 0..MaxCandidates }

\* the endpoint in use: one of the pool's urls or a url outside the pool
CurrentEndpoints ==
    { [url |-> u, chainId |-> 42220, status |-> st[1], isActive |-> st[2], metrics |-> m] :
        u \in Urls \cup {"https://rpc.celo.org"},
        st \in { <<"healthy", TRUE>>, <<"down", FALSE>> },
        m \in { mm \in SampleMetrics : mm.responseTime = 100 } }

InitSwitch ==
    /\ swCurrent \in CurrentEndpoints
    /\ swPool \in SwitchPools
    /\ swPc = "idle"
    /\ swResult = <<>>
    /\ CoreIdle /\ MonitorIdle /\ CongestionIdle /\ ConsentIdle /\ RecoveryHookIdle

SwitchRpcEndpoint ==
    /\ swPc = "idle"
    /\ swPc' = "returned"
    /\ swResult' = switchRpcEndpoint(swCurrent, swPool)
    /\ UNCHANGED <<swCurrent, swPool, coreVars, monitorVars, congestionVars, consentVars, recoveryHookVars>>

NextSwitch ==
    SwitchRpcEndpoint

SpecSwitch ==
    InitSwitch /\ [][NextSwitch]_vars

(***************************************************************************)
(* requestUserConsent on its own.  The clock counts ms in steps of         *)
(* ClockStep; the timer of setTimeout fires when the clock reaches its due *)
(* time, and the clock does not pass a timer that is due.                  *)
(***************************************************************************)
ClockStep == 1000

\* every action of the catalog
CatalogActions ==
    UNION { { generateUserMessage(c).actions[i] : i \in DOMAIN generateUserMessage(c).actions } :
            c \in ErrorCategory }

ConsentTimeouts == {0, 1000, 3000, 5000, 10000}

InitConsent ==
    /\ conAction \in CatalogActions
    /\ conTimeout \in ConsentTimeouts
    /\ conPc = "idle"
    /\ conResult = <<>>
    /\ conTimer = <<>>
    /\ conIssuedAt = 0
    /\ conResolvedAt = 0
    /\ conClock = 0
    /\ CoreIdle /\ MonitorIdle /\ SwitchIdle /\ CongestionIdle /\ RecoveryHookIdle

\* the call: return true, or set the timer and return the pending promise
RequestUserConsent ==
    /\ conPc = "idle"
    /\ conClock + 5000 <= MaxClockSteps * ClockStep
    /\ conIssuedAt' = conClock
    /\ IF ~conAction.requiresConsent
       THEN /\ conPc' = "resolved"
            /\ conResult' = <<requestUserConsent(conAction)>>
            /\ conResolvedAt' = conClock
            /\ conTimer' = conTimer
       ELSE /\ conPc' = "pending"
            /\ conTimer' = <<conClock + consentWait(conAction, conTimeout)>>
            /\ UNCHANGED <<conResult, conResolvedAt>>
    /\ UNCHANGED <<conAction, conTimeout, conClock, coreVars, monitorVars, switchVars, congestionVars, recoveryHookVars>>

\* the timer fires: resolve(true)
ConsentTimerFires ==
    /\ conPc = "pending"
    /\ conTimer # <<>>
    /\ conClock >= conTimer[1]
    /\ conPc' = "resolved"
    /\ conResult' = <<requestUserConsent(conAction)>>
    /\ conResolvedAt' = conClock
    /\ conTimer' = <<>>
    /\ UNCHANGED <<conAction, conTimeout, conIssuedAt, conClock, coreVars, monitorVars, switchVars,
                   congestionVars, recoveryHookVars>>

ClockTick ==
    /\ conClock + ClockStep <= MaxClockSteps * ClockStep
    /\ IF conTimer = <<>> THEN TRUE ELSE conClock < conTimer[1]
    /\ conClock' = conClock + ClockStep
    /\ UNCHANGED <<conAction, conTimeout, conPc, conResult, conTimer, conIssuedAt,
                   conResolvedAt, coreVars, monitorVars, switchVars, congestionVars, recoveryHookVars>>

NextConsent ==
    \/ RequestUserConsent
    \/ ConsentTimerFires
    \/ ClockTick

SpecConsent ==
    InitConsent /\ [][NextConsent]_vars

\* time goes on and a timer that is due fires
FairSpecConsent ==
    SpecConsent /\ WF_vars(ClockTick) /\ WF_vars(ConsentTimerFires)

(***************************************************************************)
(* determineCongestionLevel on its own: gas prices and average response    *)
(* times at, just above and away from the thresholds.                      *)
(***************************************************************************)
GasPrices ==
    { 0, 20 * Gwei, 50 * Gwei, 50 * Gwei + 1, 60 * Gwei,
      100 * Gwei, 100 * Gwei + 1, 150 * Gwei }

ResponseTimes ==
    { [num |-> 0, den |-> 1], [num |-> 1000, den |-> 1], [num |-> 2000, den |-> 1],
      [num |-> 4001, den |-> 2], [num |-> 3000, den |-> 1], [num |-> 5000, den |-> 1],
      [num |-> 10001, den |-> 2], [num |-> 6000, den |-> 1] }

InitCongestion ==
    /\ cgGasPrice \in GasPrices
    /\ cgResponseTime \in ResponseTimes
    /\ cgLevel = NULL
    /\ CoreIdle /\ MonitorIdle /\ SwitchIdle /\ ConsentIdle /\ RecoveryHookIdle

DetermineCongestionLevel ==
    /\ cgLevel = NULL
    /\ cgLevel' = determineCongestionLevel(cgGasPrice, cgResponseTime)
    /\ UNCHANGED <<cgGasPrice, cgResponseTime, coreVars, monitorVars, switchVars, consentVars, recoveryHookVars>>

NextCongestion ==
    DetermineCongestionLevel

SpecCongestion ==
    InitCongestion /\ [][NextCongestion]_vars

(***************************************************************************)
(* useErrorRecovery.  erError is the error option of the last render (<<>> *)
(* for null), erMessage, erLoading, erSuccess and erAttempts are the       *)
(* hook's state, erCallbacks counts the calls of the callbacks.  erAuto    *)
(* holds the handleAutomaticRecovery calls and erManual the triggerAction  *)
(* calls that wait for consent, each with the values its closure captured. *)
(* An automatic recovery awaits promises that are already resolved, so it  *)
(* ends before the next event is handled.                                  *)
(***************************************************************************)
\* recoverFromError as a function of its arguments: the loop from index from
RECURSIVE recoverLoop(_, _, _, _, _)
recoverLoop(message, category, pool, from, attempts) ==
    LET i == nextAutomatic(message.actions, from)
    IN  IF i = 0
        THEN [recovered |-> FALSE, message |-> message, attempts |-> attempts]
        ELSE LET action == message.actions[i]
                 outcome == performRecovery(action, pool)
                 made == IF requestUserConsent(action)
                         THEN Append(attempts,
                                     [category |-> category, action |-> action,
                                      success |-> outcome.success, details |-> outcome.details])
                         ELSE attempts
             IN  IF requestUserConsent(action) /\ returnsRecovered(outcome.success)
                 THEN [recovered |-> TRUE, message |-> message, attempts |-> made]
                 ELSE recoverLoop(message, category, pool, i + 1, made)

recoverFromError(err, context, pool) ==
    LET category == classifyError(err, context)
    IN  recoverLoop(generateUserMessage(category), category, pool, 1, <<>>)

\* the switch over action.type inside the try block of triggerAction, with
\* the callbacks it calls
actionOutcome(action, pool, options) ==
    LET none == [success |-> FALSE, details |-> <<>>, onRetry |-> 0, onSwitchRpc |-> 0]
    IN  CASE action.type = "retry" ->
                IF options.onRetryThrows
                THEN [none EXCEPT !.onRetry = 1, !.details = <<"Action failed">>]
                ELSE [none EXCEPT !.onRetry = 1, !.success = TRUE]
          [] action.type = "switch_rpc" ->
                IF Len(pool) > 0
                THEN LET newEndpoint == switchRpcEndpoint(pool[1], pool)
                     IN  IF newEndpoint # <<>>
                         THEN [none EXCEPT !.onSwitchRpc = 1, !.success = TRUE,
                                           !.details = <<"Switched to", newEndpoint[1].url>>]
                         ELSE [none EXCEPT !.details = <<"No alternative endpoint available">>]
                ELSE none
          [] action.type = "install_wallet" ->
                [none EXCEPT !.success = TRUE, !.details = <<"Opened wallet installation page">>]
          [] action.type = "update_browser" ->
                [none EXCEPT !.success = TRUE, !.details = <<"Opened browser update page">>]
          [] action.type = "manual_action" ->
                [none EXCEPT !.success = TRUE, !.details = <<"User guidance provided">>]
          [] OTHER -> none

\* triggerAction from setLoading(true) to the end of the finally block, for
\* the error and the pool of the render the call was made in
performAction(action, err, pool) ==
    LET outcome == actionOutcome(action, pool, erOptions)
    IN  /\ erLoading' = FALSE
        /\ erSuccess' = (erSuccess \/ outcome.success)
        /\ erAttempts' = Append(erAttempts,
                                [error |-> err, category |-> classifyError(err, NoContext),
                                 action |-> action, success |-> outcome.success,
                                 details |-> outcome.details])
        /\ erCallbacks' = [onRetry |-> erCallbacks.onRetry + outcome.onRetry,
                           onSwitchRpc |-> erCallbacks.onSwitchRpc + outcome.onSwitchRpc,
                           onRecovered |-> erCallbacks.onRecovered
                                            + (IF outcome.success THEN 1 ELSE 0)]

\* the action going ahead whatever the consent
proceedsRegardless(consent) ==
    TRUE

\* if (!consent) return
proceeds(consent) ==
    consent

\* what the consent gate can answer: true as requestUserConsent does, and
\* false as the gate of the hook's tests does for an action with
\* requiresConsent
ConsentDecisions(action) ==
    { requestUserConsent(action) } \cup (IF action.requiresConsent THEN {FALSE} ELSE {})

HookErrors ==
    { <<"R", "P", "C">>,
      <<"T", "r", "a", "n", "s", "a", "c", "t", "i", "o", "n">>,
      <<"b", "r", "o", "w", "s", "e", "r">> }

HookPools ==
    { p \in Pools :
        /\ Len(p) <= 2
        /\ \A i \in DOMAIN p :
            /\ p[i].metrics.responseTime = 100
            /\ <<p[i].status, p[i].isActive>> \in { <<"healthy", TRUE>>, <<"down", FALSE>> }
        /\ Len(p) >= 1 => p[1].url = "https://forno.celo.org"
        /\ Len(p) >= 2 => p[2].url = "https://rpc.ankr.com/celo" }

\* the hook rendered for the first time, without an error
InitRecoveryHook ==
    /\ erError = <<>>
    /\ erPool \in HookPools
    /\ erOptions \in [autoRecover : BOOLEAN, onRetryThrows : BOOLEAN]
    /\ erMessage = <<>>
    /\ erLoading = FALSE
    /\ erSuccess = FALSE
    /\ erAttempts = <<>>
    /\ erCallbacks = NoCalls
    /\ erAuto = {}
    /\ erManual = {}
    /\ erEvent = "none"
    /\ erEvents = 0
    /\ CoreIdle /\ MonitorIdle /\ SwitchIdle /\ CongestionIdle /\ ConsentIdle

\* a render with another error option, and the effect that follows it
ErrorChanges(e) ==
    /\ erEvents < MaxEvents
    /\ erAuto = {}
    /\ e # erError
    /\ erError' = e
    /\ erEvents' = erEvents + 1
    /\ erEvent' = "errorChanged"
    /\ erSuccess' = FALSE
    /\ erAttempts' = <<>>
    /\ IF e = <<>>
       THEN /\ erMessage' = <<>>
            /\ erLoading' = FALSE
            /\ erAuto' = erAuto
       ELSE LET userMessage == generateUserMessage(classifyError(e[1], NoContext))
            IN  /\ erMessage' = <<userMessage>>
                /\ IF erOptions.autoRecover
                      /\ \E i \in DOMAIN userMessage.actions : userMessage.actions[i].automatic
                   THEN /\ erLoading' = TRUE
                        /\ erAuto' = {[error |-> e[1], pool |-> erPool,
                                       rendered |-> erMessage]}
                   ELSE /\ erLoading' = FALSE
                        /\ erAuto' = erAuto
    /\ UNCHANGED <<erPool, erOptions, erCallbacks, erManual>>

\* handleAutomaticRecovery after await recoverFromError
AutomaticRecoveryResolves(a) ==
    /\ a \in erAuto
    /\ LET result == recoverFromError(a.error, NoContext, [given |-> TRUE, list |-> a.pool])
       IN  /\ erAttempts' = [i \in DOMAIN result.attempts |->
                                [error |-> a.error,
                                 category |-> result.attempts[i].category,
                                 action |-> result.attempts[i].action,
                                 success |-> result.attempts[i].success,
                                 details |-> result.attempts[i].details]]
           /\ erSuccess' = (erSuccess \/ result.recovered)
           /\ erCallbacks' = [erCallbacks EXCEPT !.onRecovered =
                                    @ + (IF result.recovered THEN 1 ELSE 0)]
    /\ erLoading' = FALSE
    /\ erAuto' = erAuto \ {a}
    /\ erEvent' = "automaticResolved"
    /\ UNCHANGED <<erError, erPool, erOptions, erMessage, erManual, erEvents>>

\* the message state of the last committed render, which the callbacks the
\* hook returned close over: while the automatic recovery started by an
\* effect is awaiting, the state updates of that effect are not rendered yet
\* and the message is still the one the effect ran with
renderedMessage ==
    IF erAuto = {} THEN erMessage ELSE (CHOOSE a \in erAuto : TRUE).rendered

\* the actions a caller can pass: those of the message shown
OfferedActions ==
    IF renderedMessage = <<>> THEN { Action("retry", TRUE, FALSE) }
    ELSE { renderedMessage[1].actions[i] : i \in DOMAIN renderedMessage[1].actions }

\* triggerAction(action) up to its end or to the consent request; a caller
\* can call it from an effect of its own or from a microtask, that is before
\* the promise of handleAutomaticRecovery is settled
TriggerAction(action) ==
    /\ erEvents < MaxEvents
    /\ erEvents' = erEvents + 1
    /\ IF erError = <<>> \/ renderedMessage = <<>>
       THEN /\ erEvent' = "ignored"
            /\ UNCHANGED <<erLoading, erSuccess, erAttempts, erCallbacks, erManual>>
       ELSE IF action.requiresConsent
       THEN /\ erEvent' = "consentRequested"
            /\ erManual' = erManual \cup
                    {[id |-> erEvents + 1, action |-> action, error |-> erError[1],
                      pool |-> erPool]}
            /\ UNCHANGED <<erLoading, erSuccess, erAttempts, erCallbacks>>
       ELSE /\ erEvent' = "performed"
            /\ performAction(action, erError[1], erPool)
            /\ erManual' = erManual
    /\ UNCHANGED <<erError, erPool, erOptions, erMessage, erAuto>>

\* triggerAction after await requestUserConsent
TriggerConsentResolves(m, consent) ==
    /\ m \in erManual
    /\ erAuto = {}
    /\ erManual' = erManual \ {m}
    /\ IF proceeds(consent)
       THEN /\ erEvent' = IF consent THEN "consentGranted" ELSE "consentDenied"
            /\ performAction(m.action, m.error, m.pool)
       ELSE /\ erEvent' = "consentDenied"
            /\ UNCHANGED <<erLoading, erSuccess, erAttempts, erCallbacks>>
    /\ UNCHANGED <<erError, erPool, erOptions, erMessage, erAuto, erEvents>>

\* reset()
Reset ==
    /\ erEvents < MaxEvents
    /\ erAuto = {}
    /\ erEvents' = erEvents + 1
    /\ erEvent' = "reset"
    /\ erMessage' = <<>>
    /\ erLoading' = FALSE
    /\ erSuccess' = FALSE
    /\ erAttempts' = <<>>
    /\ UNCHANGED <<erError, erPool, erOptions, erCallbacks, erAuto, erManual>>

NextRecoveryHook ==
    \/ \E e \in { <<>> } \cup { <<m>> : m \in HookErrors } :
        ErrorChanges(e) /\ UNCHANGED <<coreVars, monitorVars, switchVars, congestionVars, consentVars>>
    \/ \E a \in erAuto :
        AutomaticRecoveryResolves(a) /\ UNCHANGED <<coreVars, monitorVars, switchVars, congestionVars, consentVars>>
    \/ \E action \in OfferedActions :
        TriggerAction(action) /\ UNCHANGED <<coreVars, monitorVars, switchVars, congestionVars, consentVars>>
    \/ \E m \in erManual : \E consent \in ConsentDecisions(m.action) :
        TriggerConsentResolves(m, consent) /\ UNCHANGED <<coreVars, monitorVars, switchVars, congestionVars, consentVars>>
    \/ Reset /\ UNCHANGED <<coreVars, monitorVars, switchVars, congestionVars, consentVars>>

SpecRecoveryHook ==
    InitRecoveryHook /\ [][NextRecoveryHook]_vars

(***************************************************************************)
(* Properties of classifyError.                                            *)
(***************************************************************************)
CategoryNames ==
    { CategoryName[c] : c \in ErrorCategory }

\* C1: whenever the context hint is one of the four category names, the
\* result of classifyError is that category, whatever the message contains.
C1_HintWinsOutright ==
    (clsResult # NULL /\ clsContext \in CategoryNames) =>
        CategoryName[clsResult] = clsContext

(***************************************************************************)
(* Properties of recoverFromError.                                         *)
(***************************************************************************)
automaticActions(message) ==
    SelectSeq(message.actions, LAMBDA a : a.automatic)

\* C2: recoverFromError executes the automatic actions of the category in
\* catalog order, records one attempt per executed action and returns at
\* the first successful attempt: with recovered = true the last attempt is
\* the only successful one, with recovered = false no attempt succeeded and
\* every automatic action was attempted.
C2_StopsAtFirstSuccess ==
    LET autos == automaticActions(recMessage)
    IN  /\ Len(recAttempts) <= Len(autos)
        /\ \A j \in DOMAIN recAttempts : recAttempts[j].action = autos[j]
        /\ recPc = "awaitConsent" => \A j \in DOMAIN recAttempts : ~recAttempts[j].success
        /\ recPc = "returned" =>
            /\ recResult.attempts = recAttempts
            /\ recResult.message = generateUserMessage(classifyError(recError, recContext))
            /\ recResult.recovered =>
                /\ Len(recAttempts) >= 1
                /\ recAttempts[Len(recAttempts)].success
                /\ \A j \in 1..(Len(recAttempts) - 1) : ~recAttempts[j].success
            /\ ~recResult.recovered =>
                /\ Len(recAttempts) = Len(autos)
                /\ \A j \in DOMAIN recAttempts : ~recAttempts[j].success

C2_Witness ==
    /\ recPc = "returned"
    /\ recResult.recovered
    /\ Len(recResult.attempts) = 1
    /\ Len(automaticActions(recMessage)) = 2

hasHealthyAlternative(pool) ==
    /\ pool.given
    /\ Len(pool.list) > 0
    /\ \E i \in DOMAIN pool.list : isCandidate(pool.list[i], pool.list[1])

networkUnreachableReturned ==
    /\ recPc = "returned"
    /\ recError = NetworkUnreachable
    /\ recContext = NoContext
    /\ hasHealthyAlternative(recPool)

\* C3 as claimed: recovering from Error("network unreachable") with a
\* healthy alternative endpoint in the pool returns recovered = true with
\* exactly one attempt, of type switch_rpc.
C3_OneSwitchAttempt ==
    networkUnreachableReturned =>
        /\ recResult.recovered
        /\ Len(recResult.attempts) = 1
        /\ recResult.attempts[1].action.type = "switch_rpc"

\* C3 as amended: recovering from Error("network unreachable") with a
\* healthy alternative endpoint in the pool returns recovered = true with
\* exactly one attempt, of type retry; no endpoint switch is attempted.
C3_OneRetryAttempt ==
    networkUnreachableReturned =>
        /\ recResult.recovered
        /\ Len(recResult.attempts) = 1
        /\ recResult.attempts[1].action.type = "retry"
        /\ recResult.attempts[1].success

C3_Witness ==
    /\ networkUnreachableReturned
    /\ Len(recPool.list) = 2
    /\ recResult.recovered

(***************************************************************************)
(* Properties of retryWithBackoff.                                         *)
(***************************************************************************)
failuresOf(log) ==
    Cardinality({ j \in DOMAIN log : ~log[j].ok })

\* C6: with maxAttempts = n >= 1, a success on attempt k <= n means exactly
\* k calls of the operation and the value of that call returned; n failures
\* mean exactly n calls and the error of the n-th call thrown unchanged.
C6_CallsAndResult ==
    LET n == mergeConfig(retryConfig).maxAttempts
    IN  n >= 1 =>
          /\ Len(opLog) <= n
          /\ \A j \in 1..(Len(opLog) - 1) : ~opLog[j].ok
          /\ retryPc = "returned" =>
                /\ Len(opLog) >= 1
                /\ opLog[Len(opLog)].ok
                /\ retryResult = opLog[Len(opLog)].value
                /\ attempt = Len(opLog)
          /\ retryPc = "thrown" =>
                /\ Len(opLog) = n
                /\ ~opLog[n].ok
                /\ retryResult = opLog[n].value
          /\ (retryPc \in {"awaitOperation", "sleeping"}) =>
                \A j \in DOMAIN opLog : ~opLog[j].ok

C6_Witness ==
    /\ retryPc = "thrown"
    /\ mergeConfig(retryConfig).maxAttempts = 3
    /\ Len(opLog) = 3
    /\ opLog[1].value # opLog[3].value
    /\ retryResult = "Always fails"

\* C7: the delay after failed attempt i < maxAttempts is
\* min(initialDelay * backoffMultiplier^(i-1), maxDelay); no delay follows
\* the final failed attempt or a success; no delay exceeds maxDelay.
C7_BackoffDelays ==
    LET cfg == mergeConfig(retryConfig)
    IN  cfg.maxAttempts >= 1 =>
          /\ \A i \in DOMAIN delays :
                /\ i < cfg.maxAttempts
                /\ delays[i] = min(cfg.initialDelay * pow(cfg.backoffMultiplier, i - 1),
                                   cfg.maxDelay)
                /\ delays[i] <= cfg.maxDelay
          /\ Len(delays) = IF retryPc \in {"returned", "thrown"}
                           THEN Len(opLog) - 1
                           ELSE IF retryPc = "awaitOperation" THEN Len(opLog)
                           ELSE failuresOf(opLog)

C7_Witness ==
    /\ retryPc = "returned"
    /\ Len(delays) = 3
    /\ delays[1] < delays[2]
    /\ delays[3] = mergeConfig(retryConfig).maxDelay
    /\ mergeConfig(retryConfig).initialDelay * pow(mergeConfig(retryConfig).backoffMultiplier, 2)
            > mergeConfig(retryConfig).maxDelay

(***************************************************************************)
(* Properties of the probes.                                               *)
(***************************************************************************)
\* C8: after a successful probe the record has errorCount 0, successRate
\* 100, status healthy and isActive true; after a failed probe errorCount is
\* its prior value plus one, successRate 0, status down and isActive false;
\* errorCount is the number of failures in a row since the last success.
C8_ProbeRewritesRecord ==
    \A i \in DOMAIN endpoints :
        /\ probeLog[i].last = "success" =>
            /\ endpoints[i].metrics.errorCount = 0
            /\ endpoints[i].metrics.successRate = 100
            /\ endpoints[i].status = "healthy"
            /\ endpoints[i].isActive
        /\ probeLog[i].last = "failure" =>
            /\ endpoints[i].metrics.errorCount = probeLog[i].prior + 1
            /\ endpoints[i].metrics.successRate = 0
            /\ endpoints[i].status = "down"
            /\ ~endpoints[i].isActive
        /\ endpoints[i].metrics.errorCount = probeLog[i].fails

C8_Witness ==
    \E i, j \in DOMAIN endpoints :
        /\ probeLog[i].last = "failure"
        /\ probeLog[i].prior = 1
        /\ endpoints[i].metrics.errorCount = 2
        /\ probeLog[j].last = "success"
        /\ probeLog[j].prior >= 1

\* C9: in every state an endpoint whose status is down is inactive.
C9_DownIsInactive ==
    \A i \in DOMAIN endpoints :
        endpoints[i].status = "down" => ~endpoints[i].isActive

C9_Witness ==
    \E i \in DOMAIN endpoints :
        /\ probeLog[i].last = "failure"
        /\ probeLog[i].prior = 0
        /\ endpoints[i].status = "down"
        /\ \E p \in BagToSet(probes) : p.ep = i

\* the number of probes of batch b in flight to endpoint i
inFlightOf(b, i) ==
    BagCardinality([p \in { q \in BagToSet(probes) : q.batch = b /\ q.ep = i } |-> probes[p]])

\* C10: a batch probes every endpoint of its input exactly once, is complete
\* exactly when all of these probes have ended, never rejects, and every
\* endpoint then carries the update of a probe: of its own probe of the
\* batch unless a later probe has written the record since.
C10_BatchCompletes ==
    \A b \in DOMAIN batches :
        /\ batches[b].state # "rejected"
        /\ batches[b].resumed => batches[b].state = "fulfilled"
        /\ ~batches[b].resumed =>
            /\ DOMAIN batches[b].outcome = DOMAIN endpoints
            /\ \A i \in DOMAIN batches[b].outcome :
                /\ batches[b].outcome[i] \in {"pending", "success", "failure"}
                /\ inFlightOf(b, i) = IF batches[b].outcome[i] = "pending" THEN 1 ELSE 0
                /\ createClientThrows(endpoints[i]) => batches[b].outcome[i] = "failure"
            /\ batches[b].state = "fulfilled" <=>
                    \A i \in DOMAIN batches[b].outcome : batches[b].outcome[i] # "pending"
            /\ batches[b].state = "fulfilled" =>
                    \A i \in DOMAIN batches[b].outcome :
                        /\ probeLog[i].last # "none"
                        /\ probeLog[i].writer = b =>
                                endpoints[i].status =
                                    IF batches[b].outcome[i] = "success" THEN "healthy" ELSE "down"

C10_Witness ==
    \E b \in DOMAIN batches : \E i, j \in DOMAIN endpoints :
        /\ batches[b].state = "fulfilled"
        /\ ~batches[b].resumed
        /\ createClientThrows(endpoints[i])
        /\ batches[b].outcome[i] = "failure"
        /\ batches[b].outcome[j] = "success"
        /\ probeLog[i].writer = b
        /\ probeLog[j].writer = b

(***************************************************************************)
(* Properties of useNetworkHealth.                                         *)
(***************************************************************************)
\* C4: a refresh in which every active endpoint failed its retrievals ends
\* in the error state and publishes no snapshot.
C4_StaleOnError ==
    (lastRefresh # <<>> /\ lastRefresh[1].exhausted) =>
        /\ lastRefresh[1].failed
        /\ ~lastRefresh[1].published

newProbesOf(b) ==
    { p \in BagToSet(probes') : p.batch = b }

\* C5: once a snapshot is published, a call of fetchHealth less than
\* cacheTimeout after the snapshot's fetch time starts no probe batch and
\* leaves the snapshot as it is, and a call at or after cacheTimeout starts
\* exactly one new batch, with one probe per endpoint of the chain.
C5_CacheWindow ==
    [][(fetchCalls' = fetchCalls + 1 /\ data # <<>> /\ Len(chainEndpoints) > 0) =>
        IF now - lastFetchTime < cacheTimeoutOf(hookOptions)
        THEN /\ batches' = batches
             /\ probes' = probes
             /\ refreshes' = refreshes
             /\ data' = data
             /\ lastFetchTime' = lastFetchTime
        ELSE /\ Len(batches') = Len(batches) + 1
             /\ Cardinality(refreshes') = Cardinality(refreshes) + 1
             /\ BagCardinality(probes') = BagCardinality(probes)
                    + Cardinality(newProbesOf(Len(batches')))
             /\ data' = data
             /\ \A i \in Range(chainEndpoints) :
                    \/ batches'[Len(batches')].outcome[i] # "pending"
                    \/ Cardinality({ p \in newProbesOf(Len(batches')) : p.ep = i }) = 1
    ]_vars

\* a second batch was started at the end of the cache window, after a call
\* inside the window had started none
C5_Witness ==
    /\ data # <<>>
    /\ Len(batches) = 2
    /\ fetchCalls = 3
    /\ lastCall = "started"
    /\ cacheTimeoutOf(hookOptions) = 2
    /\ now - lastFetchTime = cacheTimeoutOf(hookOptions)
    /\ \E r \in refreshes : r.batch = 2 /\ r.now = now

(***************************************************************************)
(* Properties of switchRpcEndpoint.                                        *)
(***************************************************************************)
eligible(ep) ==
    ep.status = "healthy" /\ ep.isActive /\ ep.url # swCurrent.url

eligibleIndices ==
    { i \in 1..Len(swPool) : eligible(swPool[i]) }

\* C11: the endpoint returned is an element of the pool, healthy, active and
\* of another url than the current one; null is returned exactly when the
\* pool has no such element
C11_AlternativeIsEligible ==
    swPc = "returned" =>
        /\ swResult # <<>> =>
            /\ \E i \in 1..Len(swPool) : swPool[i] = swResult[1]
            /\ swResult[1].url # swCurrent.url
            /\ swResult[1].status = "healthy"
            /\ swResult[1].isActive
        /\ swResult = <<>> <=> eligibleIndices = {}

\* the pool holds a healthy, active endpoint of the current url and an
\* alternative was returned
C11_Witness ==
    /\ swPc = "returned"
    /\ swResult # <<>>
    /\ \E i \in 1..Len(swPool) :
        /\ swPool[i].url = swCurrent.url
        /\ swPool[i].status = "healthy" /\ swPool[i].isActive

penalty(ep) ==
    ep.metrics.responseTime + 100 - ep.metrics.successRate

\* C12: with candidates in the pool the endpoint returned is the first one
\* in pool order among those of the least responseTime + (100 - successRate)
C12_LeastScoreFirstInPool ==
    (swPc = "returned" /\ eligibleIndices # {}) =>
        \E k \in eligibleIndices :
            /\ swResult = <<swPool[k]>>
            /\ \A j \in eligibleIndices : penalty(swPool[k]) <= penalty(swPool[j])
            /\ \A j \in eligibleIndices :
                penalty(swPool[j]) = penalty(swPool[k]) => k <= j

\* three candidates: the first of a greater score, the other two tied at the
\* least score with different metrics
C12_Witness ==
    /\ swPc = "returned"
    /\ Len(swPool) = 3
    /\ eligibleIndices = {1, 2, 3}
    /\ penalty(swPool[1]) > penalty(swPool[2])
    /\ penalty(swPool[2]) = penalty(swPool[3])
    /\ swPool[2].metrics # swPool[3].metrics
    /\ swResult = <<swPool[2]>>

(***************************************************************************)
(* Properties of determineCongestionLevel.                                 *)
(***************************************************************************)
gasTier ==
    IF cgGasPrice > 100 * Gwei THEN 2 ELSE IF cgGasPrice > 50 * Gwei THEN 1 ELSE 0

responseTier ==
    IF cgResponseTime.num > 5000 * cgResponseTime.den THEN 2
    ELSE IF cgResponseTime.num > 2000 * cgResponseTime.den THEN 1 ELSE 0

tierName(t) ==
    CASE t = 2 -> "high" [] t = 1 -> "medium" [] OTHER -> "low"

\* C13: the level is the higher of the levels the gas price and the average
\* response time imply alone: high above 100 Gwei or 5000 ms, medium above
\* 50 Gwei or 2000 ms, low otherwise
C13_HigherOfTwoTiers ==
    cgLevel # NULL =>
        cgLevel = tierName(IF gasTier >= responseTier THEN gasTier ELSE responseTier)

\* a gas price in the low range escalated by the response time alone
C13_Witness ==
    /\ cgLevel = "high"
    /\ cgGasPrice <= 50 * Gwei
    /\ cgResponseTime.num > 5000 * cgResponseTime.den

lowGas == cgGasPrice <= 50 * Gwei
lowResponse == cgResponseTime.num <= 2000 * cgResponseTime.den
exactly(ms) == cgResponseTime.num = ms * cgResponseTime.den

\* C14 as stated: at exactly 100 Gwei or 5000 ms the level is high, at
\* exactly 50 Gwei or 2000 ms it is medium, the other dimension being low
C14_BoundaryHigherTier ==
    cgLevel # NULL =>
        /\ (cgGasPrice = 100 * Gwei /\ lowResponse) => cgLevel = "high"
        /\ (exactly(5000) /\ lowGas) => cgLevel = "high"
        /\ (cgGasPrice = 50 * Gwei /\ lowResponse) => cgLevel = "medium"
        /\ (exactly(2000) /\ lowGas) => cgLevel = "medium"

\* C14 as the code has it: the comparisons are strict, so exactly 100 Gwei or
\* 5000 ms is medium and exactly 50 Gwei or 2000 ms is low, the other
\* dimension being low
C14_BoundaryLowerTier ==
    cgLevel # NULL =>
        /\ (cgGasPrice = 100 * Gwei /\ lowResponse) => cgLevel = "medium"
        /\ (exactly(5000) /\ lowGas) => cgLevel = "medium"
        /\ (cgGasPrice = 50 * Gwei /\ lowResponse) => cgLevel = "low"
        /\ (exactly(2000) /\ lowGas) => cgLevel = "low"

\* exactly 100 Gwei with a response time in the low range
C14_Witness ==
    /\ cgLevel = "medium"
    /\ cgGasPrice = 100 * Gwei
    /\ lowResponse

\* the endpoints of the hook's chain, and the healthy ones among them, as they
\* are after a step
chainIndices ==
    { i \in EndpointIndex : endpoints'[i].chainId = hookOptions.currentChainId }

healthyIndices ==
    { i \in chainIndices : endpoints'[i].status = "healthy" }

keywordsOf ==
    [network |-> { <<"n", "e", "t", "w", "o", "r", "k">>,
                  <<"r", "p", "c">>,
                  <<"c", "o", "n", "n", "e", "c", "t", "i", "o", "n">>,
                  <<"t", "i", "m", "e", "o", "u", "t">> },
     wallet |-> { <<"w", "a", "l", "l", "e", "t">>,
                  <<"m", "e", "t", "a", "m", "a", "s", "k">>,
                  <<"c", "o", "n", "n", "e", "c", "t", "o", "r">>,
                  <<"a", "c", "c", "o", "u", "n", "t">> },
     transaction |-> { <<"t", "r", "a", "n", "s", "a", "c", "t", "i", "o", "n">>,
                  <<"t", "x">>,
                  <<"g", "a", "s">>,
                  <<"n", "o", "n", "c", "e">> },
     browser |-> { <<"b", "r", "o", "w", "s", "e", "r">>,
                  <<"c", "o", "m", "p", "a", "t", "i", "b", "i", "l", "i", "t", "y">>,
                  <<"u", "n", "s", "u", "p", "p", "o", "r", "t", "e", "d">> }]

\* the letters A to Z with their lower-case forms
lowerOf ==
    [c \in {"A", "B", "C", "D", "E", "F", "G", "H", "I", "J", "K", "L", "M",
            "N", "O", "P", "Q", "R", "S", "T", "U", "V", "W", "X", "Y", "Z"} |->
        CASE c = "A" -> "a" [] c = "B" -> "b" [] c = "C" -> "c" [] c = "D" -> "d"
          [] c = "E" -> "e" [] c = "F" -> "f" [] c = "G" -> "g" [] c = "H" -> "h"
          [] c = "I" -> "i" [] c = "J" -> "j" [] c = "K" -> "k" [] c = "L" -> "l"
          [] c = "M" -> "m" [] c = "N" -> "n" [] c = "O" -> "o" [] c = "P" -> "p"
          [] c = "Q" -> "q" [] c = "R" -> "r" [] c = "S" -> "s" [] c = "T" -> "t"
          [] c = "U" -> "u" [] c = "V" -> "v" [] c = "W" -> "w" [] c = "X" -> "x"
          [] c = "Y" -> "y" [] c = "Z" -> "z"]

sameLetter(c, k) ==
    c = k \/ (c \in DOMAIN lowerOf /\ lowerOf[c] = k)

\* the keyword occurs in the text, whatever the case of the text's letters
occursIn(keyword, text) ==
    \E i \in 0..(Len(text) - Len(keyword)) :
        \A j \in 1..Len(keyword) : sameLetter(text[i + j], keyword[j])

mentions(text, category) ==
    \E keyword \in keywordsOf[category] : occursIn(keyword, text)

\* C16: without a context hint the result is the first category in the order
\* network, wallet, transaction, browser of which a keyword occurs in the
\* message, whatever the case of its letters, and network when none occurs
C16_FirstKeywordCategory ==
    (clsResult # NULL /\ clsContext = NoContext) =>
        /\ clsResult \in ErrorCategory
        /\ clsResult =
            (IF mentions(clsMessage, "network") THEN "network"
             ELSE IF mentions(clsMessage, "wallet") THEN "wallet"
             ELSE IF mentions(clsMessage, "transaction") THEN "transaction"
             ELSE IF mentions(clsMessage, "browser") THEN "browser"
             ELSE "network")

\* "Transaction MetaMask": the wallet keyword, later in the message and in
\* mixed case, wins over the transaction keyword
C16_Witness ==
    /\ clsContext = NoContext
    /\ clsResult = "wallet"
    /\ clsMessage = <<"T", "r", "a", "n", "s", "a", "c", "t", "i", "o", "n", " ",
                      "M", "e", "t", "a", "M", "a", "s", "k">>

(***************************************************************************)
(* Properties of recoverFromError: categories without automatic actions.   *)
(***************************************************************************)
manualCatalog ==
    [transaction |->
        [title |-> "Transaction Error", severity |-> "error",
         actions |-> << [type |-> "retry", automatic |-> FALSE, requiresConsent |-> TRUE],
                        [type |-> "manual_action", automatic |-> FALSE, requiresConsent |-> FALSE] >>],
     browser |->
        [title |-> "Browser Compatibility Issue", severity |-> "error",
         actions |-> << [type |-> "update_browser", automatic |-> FALSE, requiresConsent |-> FALSE] >>]]

\* C17: for a transaction or browser error, whose actions are all manual,
\* recoverFromError asks for no consent, performs no action and returns
\* recovered = false with no attempts and the message of the category
C17_NoAutomaticAction ==
    recCategory \in {"transaction", "browser"} =>
        /\ \A i \in DOMAIN recMessage.actions : ~recMessage.actions[i].automatic
        /\ recPc = "returned"
        /\ recAttempts = <<>>
        /\ recResult = [recovered |-> FALSE, message |-> manualCatalog[recCategory],
                        attempts |-> <<>>]

\* a transaction error returned with a pool that holds a healthy alternative
C17_Witness ==
    /\ recPc = "returned"
    /\ recCategory = "transaction"
    /\ ~recResult.recovered
    /\ recResult.attempts = <<>>
    /\ recPool.given /\ Len(recPool.list) = 2
    /\ switchRpcEndpoint(recPool.list[1], recPool.list) # <<>>

(***************************************************************************)
(* Properties of recoverFromError: it always returns a result.             *)
(***************************************************************************)
anySuccess(attempts) ==
    \E i \in DOMAIN attempts : attempts[i].success

\* the result is a record of recovered, message and attempts: the message of
\* the category, the attempts made, each with its outcome, and recovered
\* exactly when an attempt succeeded
resultRecord ==
    /\ DOMAIN recResult = {"recovered", "message", "attempts"}
    /\ recResult.recovered \in BOOLEAN
    /\ recResult.message = recMessage
    /\ recResult.message.title # ""
    /\ recResult.attempts = recAttempts
    /\ \A i \in DOMAIN recResult.attempts : recResult.attempts[i].success \in BOOLEAN
    /\ recResult.recovered <=> anySuccess(recResult.attempts)

\* C18: for every error, context hint and pool, given or not, empty or
\* without a healthy alternative, recoverFromError comes to its end, and its
\* end is the return of a result record, never an error
C18_AlwaysReturnsResult ==
    /\ [](recPc \in {"idle", "awaitConsent", "returned"})
    /\ [](recPc = "returned" => resultRecord)
    /\ <>(recPc = "returned")

\* a network error returned with a pool that has no healthy alternative
C18_Witness ==
    /\ recPc = "returned"
    /\ recCategory = "network"
    /\ recPool.given /\ Len(recPool.list) = 1
    /\ switchRpcEndpoint(recPool.list[1], recPool.list) = <<>>
    /\ Len(recResult.attempts) = 1

(***************************************************************************)
(* Properties of requestUserConsent.                                       *)
(***************************************************************************)
\* C19: without requiresConsent the request is resolved to true in the call
\* itself, with no timer set; with it the request stays pending no longer
\* than the timeout given, is resolved to true when its timer fires, and is
\* always resolved
C19_ConsentResolvesInTime ==
    /\ [](conPc = "resolved" =>
            /\ conResult = <<TRUE>>
            /\ conResolvedAt - conIssuedAt <= conTimeout
            /\ ~conAction.requiresConsent => conResolvedAt = conIssuedAt)
    /\ []((conPc # "idle" /\ ~conAction.requiresConsent) =>
            (conPc = "resolved" /\ conTimer = <<>>))
    /\ [](conPc = "pending" => conClock - conIssuedAt <= conTimeout)
    /\ (conPc = "pending" ~> conPc = "resolved")

\* a request with requiresConsent and a timeout of 10000 ms resolved 5000 ms
\* after it was made
C19_Witness ==
    /\ conPc = "resolved"
    /\ conAction.requiresConsent
    /\ conTimeout = 10000
    /\ conResolvedAt = conIssuedAt + 5000
    /\ conResult = <<TRUE>>

(***************************************************************************)
(* Properties of the consent of useErrorRecovery and recoverFromError.     *)
(***************************************************************************)
requiredConsent(attempts) ==
    { i \in DOMAIN attempts : attempts[i].action.requiresConsent }

\* C20: the step in which the consent for a triggerAction call is denied
\* calls no callback and leaves loading, success and attempts as they are,
\* and an attempt for an action with requiresConsent is only ever recorded
\* in a step in which consent was granted
C20_NoActionWithoutConsent ==
    [][/\ erEvent' = "consentDenied" =>
            /\ erCallbacks' = erCallbacks
            /\ erAttempts' = erAttempts
            /\ erLoading' = erLoading
            /\ erSuccess' = erSuccess
       /\ Cardinality(requiredConsent(erAttempts')) > Cardinality(requiredConsent(erAttempts)) =>
            erEvent' = "consentGranted"
    ]_vars

\* a consent was denied after another call had recorded an attempt, and
\* the attempt log holds that attempt only
C20_Witness ==
    /\ erEvent = "consentDenied"
    /\ erError # <<>>
    /\ Len(erAttempts) = 1
    /\ ~erAttempts[1].action.requiresConsent
    /\ erManual = {}

(***************************************************************************)
(* Properties of the attempt log of useErrorRecovery.                      *)
(***************************************************************************)
\* C21: the attempt log and the success flag belong to the error of the
\* last render: without an error the log is empty and success is false, and
\* every attempt in the log, and the success flag, is for the present error
C21_LogOfOneSession ==
    /\ erError = <<>> => (erAttempts = <<>> /\ ~erSuccess)
    /\ \A i \in DOMAIN erAttempts : erError = <<erAttempts[i].error>>
    /\ erSuccess =>
        \E i \in DOMAIN erAttempts :
            erAttempts[i].success /\ erError = <<erAttempts[i].error>>

isPrefixOf(log, later) ==
    /\ Len(log) <= Len(later)
    /\ \A i \in DOMAIN log : later[i] = log[i]

\* C28: within one session, that is as long as the error stays the same and
\* reset() is not called, every step leaves the attempts already in the log
\* in place and only adds attempts at its end
C28_LogAppendOnly ==
    [][(erError' = erError /\ erEvent' # "reset") => isPrefixOf(erAttempts, erAttempts')]_vars

(***************************************************************************)
(* Properties of the refresh cycle of useNetworkHealth.                    *)
(***************************************************************************)
positionIn(seq, x) ==
    CHOOSE j \in DOMAIN seq : seq[j] = x

retrievalAfter(what) ==
    IF what = "gasPrice" THEN "successRate" ELSE "blocks"

\* the retrievals of a cycle against the active endpoints it kept: each one
\* asks an active endpoint; the first asks the first active endpoint for the
\* gas price; after a retrieval that succeeded the same endpoint is asked
\* the next figure, and there is none after the blocks; after one that
\* failed the next active endpoint is asked for the gas price; every
\* endpoint before the one asked has exactly one failed retrieval
retrievalsInOrder(active, queries) ==
    \A q \in DOMAIN queries :
        /\ \E j \in DOMAIN active : active[j] = queries[q].ep
        /\ q = 1 => (queries[q].ep = active[1] /\ queries[q].what = "gasPrice")
        /\ q > 1 =>
            IF queries[q - 1].ok
            THEN /\ queries[q].ep = queries[q - 1].ep
                 /\ queries[q - 1].what # "blocks"
                 /\ queries[q].what = retrievalAfter(queries[q - 1].what)
            ELSE /\ queries[q].what = "gasPrice"
                 /\ positionIn(active, queries[q].ep) = positionIn(active, queries[q - 1].ep) + 1
        /\ \A j \in 1..(positionIn(active, queries[q].ep) - 1) :
            Cardinality({ p \in 1..(q - 1) : queries[p].ep = active[j] /\ ~queries[p].ok }) = 1

\* a cycle that reached the end of its loop stopped at the endpoint whose
\* three retrievals succeeded, or every active endpoint failed a retrieval
endedAtFirstSuccess(last) ==
    LET n == Len(last.queries)
    IN  IF last.exhausted
        THEN \A j \in DOMAIN last.activeEndpoints :
                \E q \in DOMAIN last.queries :
                    last.queries[q].ep = last.activeEndpoints[j] /\ ~last.queries[q].ok
        ELSE last.activeEndpoints # <<>> =>
                /\ n >= 3
                /\ \A q \in (n - 2)..n :
                    last.queries[q].ok /\ last.queries[q].ep = last.queries[n].ep
                /\ last.queries[n].what = "blocks"

\* C22: a cycle keeps, in pool order, the endpoints of the chain that are
\* active when the probe batch has ended, and no others; it asks them in
\* that order, an endpoint only once every endpoint before it has failed one
\* retrieval, and it stops at the first endpoint whose three retrievals
\* succeed
C22_FallbackOrder ==
    [][/\ \A r \in refreshes : \A r2 \in refreshes' :
            (r.phase = "probing" /\ r2.batch = r.batch /\ r2.phase # "probing") =>
                /\ r2.active = SelectSeq(r.eps, LAMBDA i : endpoints[i].isActive)
                /\ r2.queries = <<>>
       /\ \A r \in refreshes' : retrievalsInOrder(r.active, r.queries)
       /\ (lastRefresh' # lastRefresh /\ ~lastRefresh'[1].failed) =>
            /\ \A r \in refreshes \ refreshes' :
                r.phase = "probing" =>
                    lastRefresh'[1].activeEndpoints = SelectSeq(r.eps, LAMBDA i : endpoints[i].isActive)
            /\ retrievalsInOrder(lastRefresh'[1].activeEndpoints, lastRefresh'[1].queries)
            /\ endedAtFirstSuccess(lastRefresh'[1])]_vars

\* a cycle whose first active endpoint failed its second retrieval and whose
\* second active endpoint delivered all three
C22_Witness ==
    /\ lastRefresh # <<>>
    /\ Len(lastRefresh[1].activeEndpoints) = 2
    /\ ~lastRefresh[1].exhausted
    /\ Len(lastRefresh[1].queries) = 5
    /\ lastRefresh[1].queries[2] = [ep |-> lastRefresh[1].activeEndpoints[1],
                                    what |-> "successRate", ok |-> FALSE]
    /\ lastRefresh[1].queries[5] = [ep |-> lastRefresh[1].activeEndpoints[2],
                                    what |-> "blocks", ok |-> TRUE]

\* the mean difference of the timestamps of consecutive blocks, newest
\* first, as a quotient
meanTimestampDifference(blocks) ==
    [num |-> sum([i \in 1..(Len(blocks) - 1) |-> blocks[i].timestamp - blocks[i + 1].timestamp]),
     den |-> Len(blocks) - 1]

sameQuotient(a, b) ==
    a.num * b.den = b.num * a.den

\* C23: the block production time of a snapshot whose cycle sampled more
\* than one block is the mean difference of the timestamps of consecutive
\* sampled blocks, in the seconds the timestamps are in, and lastBlockNumber
\* is the number of the newest sampled block
C23_BlockTimeInSeconds ==
    (/\ lastRefresh # <<>>
     /\ lastRefresh[1].published
     /\ ~lastRefresh[1].exhausted
     /\ lastRefresh[1].queries # <<>>) =>
        LET blocks == blocksVia(lastRefresh[1].queries[Len(lastRefresh[1].queries)].ep)
        IN  /\ data[1].metrics.lastBlockNumber = blocks[1].number
            /\ Len(blocks) > 1 =>
                sameQuotient(data[1].metrics.blockProductionTime, meanTimestampDifference(blocks))

\* the endpoint at which the loop of a cycle stopped, 0 when it stopped at
\* none: no active endpoint, or a failed retrieval at every one
stoppedAt(last) ==
    IF last.exhausted \/ last.queries = <<>> THEN 0
    ELSE last.queries[Len(last.queries)].ep

\* C29: the figures of a published snapshot are those of the endpoint at
\* which the loop of its cycle stopped: the congestion level is computed from
\* that endpoint's gas price, the success rate and the block figures are
\* that endpoint's; a cycle that stopped at no endpoint publishes none
C29_FiguresFromOneEndpoint ==
    (lastRefresh # <<>> /\ lastRefresh[1].published) =>
        LET at == stoppedAt(lastRefresh[1])
            metrics == data[1].metrics
        IN  /\ data[1].congestionLevel =
                    determineCongestionLevel(IF at = 0 THEN 0 ELSE gasPriceVia(at),
                                             metrics.rpcResponseTime)
            /\ metrics.transactionSuccessRate = (IF at = 0 THEN 0 ELSE successRateVia(at))
            /\ metrics.lastBlockNumber = (IF at = 0 THEN 0 ELSE lastBlockNumberOf(blocksVia(at)))
            /\ metrics.blockProductionTime =
                    (IF at = 0 THEN NoRate ELSE blockProductionTimeOf(blocksVia(at), NoRate))

\* C24: the aggregate status of the snapshot a reader holds agrees with the
\* endpoint records the snapshot contains, which are the records its
\* rpcEndpoints refers to
C24_StatusAgreesWithRecords ==
    data # <<>> => data[1].status = networkStatus(data[1].rpcEndpoints)

(***************************************************************************)
(* Properties of useNetworkHealth mounted: effect, timer, overlap.         *)
(***************************************************************************)
\* C25: while the hook is mounted at most one refresh is in progress: a
\* call of fetchHealth that arrives while a cycle is awaiting, from the
\* effect of a render or from the timer, starts no second probe batch
C25_OneRefreshInFlight ==
    mounted => Cardinality(refreshes) <= 1

\* a step in which an armed interval ticks: its next tick moves on
timerTicks ==
    \E t \in timers : \E u \in timers' : u.id = t.id /\ u.due > t.due

\* C26: while the hook is mounted over a chain with endpoints, every tick of
\* the timer starts a probe batch, whatever the interval, the cache timeout
\* and the age of the cached snapshot
C26_EveryTickRefreshes ==
    [][(mounted /\ timerTicks) => Len(batches') = Len(batches) + 1]_vars

\* C27: at most one interval is armed at any moment, none is armed once the
\* hook is unmounted, and no probe batch is started after the unmount
C27_TimerCancelled ==
    [][/\ Cardinality(timers') <= 1
       /\ ~mounted' => timers' = {}
       /\ ~mounted => (Len(batches') = Len(batches) /\ ~timerTicks)]_vars

\* the hook unmounted after its effect ran more than once with an interval
\* short enough to tick, the clock past the time of that tick
C27_Witness ==
    /\ ~mounted
    /\ fetchCalls >= 2
    /\ interval # <<>>
    /\ now >= intervalOf(interval)
    /\ timers = {}

\* C30: while the hook is mounted the fetch time of the cache never
\* decreases: a cycle that started earlier does not replace the snapshot of
\* a cycle that started later
C30_FetchTimeMonotonic ==
    [][mounted => lastFetchTime' >= lastFetchTime]_vars

====
